---- MODULE Spec2Model ----
(***************************************************************************)
(* LgMonitorCoordinator (custom_components/lg_monitor/coordinator.py):     *)
(* the per-target last-write-wins command dispatcher, the coordinator      *)
(* lifecycle (async_setup / async_unload) and the debounced broadcast      *)
(* publisher, as a state machine.                                          *)
(*                                                                         *)
(* Every await of the source that can really suspend is a boundary between *)
(* two actions: queue.get() on an empty queue, the outbound service call,  *)
(* the spacing sleep, the debounce sleep, the MQTT publish and the await   *)
(* of the cancelled worker in async_unload.  asyncio.Lock is never held    *)
(* across a suspension, so acquiring it never suspends and each critical   *)
(* section is part of one action.                                          *)
(***************************************************************************)
EXTENDS Integers, Sequences, FiniteSets, TLC

\* ---------------------------------------------------------------- bounds
MaxWorkers == 2
MaxTime == 3
MaxInterval == 2
MaxSpacing == 1
MaxTasks == 2
ConfLedCount == 3
TriggerBurst == 10

\* The spacing of the timed dispatcher runs, in clock ticks (a quarter of it
\* is one tick), and the last clock reading of those runs.
SpacingTicks == 4
SpacingHorizon == 6

\* The colour arithmetic on its own: the longest list of colours aggregated.
MaxColours == 3

\* The longest byte buffer decoded on its own, in LEDs.
MaxLeds == 2

\* The subscriptions of one kind made over repeated starts.
MaxSubscriptions == 3
MaxColourCalls == 2

\* ------------------------------------------------------- program constants
DEFAULT_TRANSITION == 0
MODE_LISTEN == "listen"
MODE_BROADCAST == "broadcast"
DEFAULT_LED_IN_TOPIC == "lg/monitor/out"
DEFAULT_LED_OUT_TOPIC == "lg/monitor/out"
DEFAULT_COMMAND_TOPIC == "lg/monitor/colour"
DEFAULT_BRIGHTNESS_LEVELS == 12

\* An Optional value is a sequence of length 0 (None) or 1.
None == <<>>
Some(x) == <<x>>

Max2(a, b) == IF a >= b THEN a ELSE b
Min2(a, b) == IF a <= b THEN a ELSE b
Clamp255(x) == Max2(0, Min2(255, x))
Max3(c) == Max2(c[1], Max2(c[2], c[3]))

\* The validated group list (coordinator._groups): two groups sharing light "b".
Groups ==
  << [name |-> "Group 1", entities |-> <<"a", "b">>, led_indices |-> <<0, 1>>,
      strategy |-> "average"],
     [name |-> "Group 2", entities |-> <<"b">>, led_indices |-> <<2>>,
      strategy |-> "one_to_one"] >>

GroupIndexes == 0 .. (Len(Groups) - 1)
Entities == UNION {{Groups[g].entities[i] : i \in 1 .. Len(Groups[g].entities)} :
                   g \in 1 .. Len(Groups)}
WorkerIds == 1 .. MaxWorkers
TaskIds == 1 .. MaxTasks

\* A second group list: a one_to_one group with more lights than LEDs, listed
\* before a group of one light.
PairedGroups ==
  << [name |-> "Group 1", entities |-> <<"a", "b", "c">>, led_indices |-> <<1, 2>>,
      strategy |-> "one_to_one"],
     [name |-> "Group 2", entities |-> <<"d">>, led_indices |-> <<0>>,
      strategy |-> "dominant"] >>

\* A third group list: a group that draws one of its lights' colours at
\* random, and a group whose strategy is written with a capital.
MixedGroups ==
  << [name |-> "Group 1", entities |-> <<"a", "b">>, led_indices |-> <<0, 1>>,
      strategy |-> "random"],
     [name |-> "Group 2", entities |-> <<"b", "a">>, led_indices |-> <<2>>,
      strategy |-> "Dominant"] >>

\* The lights of a group list.
EntitiesOf(gs) ==
  UNION {{gs[g].entities[i] : i \in 1 .. Len(gs[g].entities)} : g \in 1 .. Len(gs)}

\* The group list as configured (entry options "groups"), before validation.
\* A configured LED index is a value of any type: int says whether it is a
\* Python int, v is its number.
MaxRawGroups == 2

IntValue(v) == [v |-> v, int |-> TRUE]
NotAnInt == [v |-> 0, int |-> FALSE]

\* Configured items: a group with an empty entity and LED indices out of order
\* and repeated, a named group with a negative and a non-integer index, a group
\* with no entity, a group with no valid LED index, a group whose name and
\* strategy are empty strings, and an item that is no dict.
RawItems ==
  { [name |-> None, entities |-> <<"a", "", "b">>,
     led_indices |-> <<IntValue(1), IntValue(0), IntValue(1)>>, strategy |-> None,
     dict |-> TRUE],
    [name |-> Some("Desk"), entities |-> <<"b">>,
     led_indices |-> <<IntValue(2), IntValue(-3), NotAnInt>>,
     strategy |-> Some("one_to_one"), dict |-> TRUE],
    [name |-> None, entities |-> <<"">>,
     led_indices |-> <<IntValue(2)>>, strategy |-> None, dict |-> TRUE],
    [name |-> Some("Shelf"), entities |-> <<"c">>,
     led_indices |-> <<IntValue(-1), NotAnInt>>, strategy |-> Some("dominant"),
     dict |-> TRUE],
    [name |-> Some(""), entities |-> <<"c">>,
     led_indices |-> <<IntValue(5)>>, strategy |-> Some(""), dict |-> TRUE],
    [dict |-> FALSE] }

RawConfigs == UNION {[1 .. n -> RawItems] : n \in 0 .. MaxRawGroups}

\* value or default: the default replaces None and the empty string alike
OrDefault(value, default) == IF value = None \/ value = Some("") THEN default ELSE value[1]

\* [x for x in seq if keep(x)]
RECURSIVE Truthy(_)
Truthy(entities) ==
  IF entities = <<>> THEN <<>>
  ELSE (IF Head(entities) # "" THEN <<Head(entities)>> ELSE <<>>) \o Truthy(Tail(entities))

\* [int(v) for v in led_indices if isinstance(v, int) and v >= 0]
RECURSIVE ValidLeds(_)
ValidLeds(led_indices) ==
  IF led_indices = <<>> THEN <<>>
  ELSE (IF Head(led_indices).int /\ Head(led_indices).v >= 0
        THEN <<Head(led_indices).v>> ELSE <<>>) \o ValidLeds(Tail(led_indices))

\* sorted(set(values))
RECURSIVE SortedSet(_)
SortedSet(S) ==
  IF S = {} THEN <<>>
  ELSE LET least == CHOOSE x \in S : \A y \in S : x <= y
       IN <<least>> \o SortedSet(S \ {least})

\* str(n) for n >= 0
DecimalDigits == <<"0", "1", "2", "3", "4", "5", "6", "7", "8", "9">>
RECURSIVE DecimalString(_)
DecimalString(n) ==
  IF n < 10 THEN DecimalDigits[n + 1]
  ELSE DecimalString(n \div 10) \o DecimalDigits[(n % 10) + 1]

\* Mutant: a group is held whatever its entities and LED indices are.
RECURSIVE NormaliseFrom_KeepsAll(_, _)
NormaliseFrom_KeepsAll(raw, idx) ==
  IF idx >= Len(raw) THEN <<>>
  ELSE LET item == raw[idx + 1]
       IN (IF ~item.dict THEN <<>>
           ELSE << [name |-> OrDefault(item.name, "Group " \o DecimalString(idx + 1)),
                    entities |-> Truthy(item.entities),
                    led_indices |-> SortedSet({ValidLeds(item.led_indices)[i] :
                                                 i \in 1 .. Len(ValidLeds(item.led_indices))}),
                    strategy |-> OrDefault(item.strategy, "average")] >>)
          \o NormaliseFrom_KeepsAll(raw, idx + 1)

\* _normalise_groups: the loop from item idx on
RECURSIVE NormaliseFrom(_, _)
NormaliseFrom(raw, idx) ==
  IF idx >= Len(raw) THEN <<>>
  ELSE LET item == raw[idx + 1]
           entities == Truthy(item.entities)
           led_indices == ValidLeds(item.led_indices)
       IN (IF ~item.dict THEN <<>>
           ELSE IF entities = <<>> \/ led_indices = <<>> THEN <<>>
           ELSE << [name |-> OrDefault(item.name, "Group " \o DecimalString(idx + 1)),
                    entities |-> entities,
                    led_indices |-> SortedSet({led_indices[i] : i \in 1 .. Len(led_indices)}),
                    strategy |-> OrDefault(item.strategy, "average")] >>)
          \o NormaliseFrom(raw, idx + 1)

\* _normalise_groups(raw)
NormaliseGroups(raw) == NormaliseFrom(raw, 0)

\* Inbound payloads: empty, of a length that is no multiple of 3, and frames of
\* one, two and three LEDs.
BrightLed == <<255, 0, 0>>
DimLed == <<0, 64, 0>>
InputPayloads ==
  {<<>>, <<255, 0>>, BrightLed, BrightLed \o DimLed, DimLed \o BrightLed \o DimLed}

\* Inputs of the direct group commands (light.py async_turn_on / async_turn_off).
InputColours == {<<255, 0, 0>>, <<0, 0, 255>>}
InputBrightness == {None, Some(0)}
\* group_index as the callers may pass it, one of them out of range
InputGroupIndexes == 0 .. Len(Groups)

\* Colours to aggregate: channel sums over two colours that are odd, with an
\* even and with an odd half below, and colours of equal channel sum.
PureColours == {<<255, 0, 0>>, <<0, 255, 0>>, <<1, 0, 2>>, <<0, 0, 0>>, <<2, 1, 255>>}

ColourLists == UNION {[1 .. n -> PureColours] : n \in 0 .. MaxColours}

AggregateArgs ==
  [fn : {"aggregate_colour"}, colours : ColourLists,
   strategy : {"average", "dominant", "random", "Dominant", ""}]

\* Colours to calibrate, one with channels out of range, and cutoff settings.
InputRgb ==
  {<<300, -5, 10>>, <<120, 30, 0>>, <<0, 0, 0>>, <<49, 49, 49>>, <<255, 100, 20>>,
   <<60, 60, 60>>, <<50, 200, 99>>}

InputCutoffs ==
  [cutoff_red : {0, 200}, cutoff_green : {0, 60}, cutoff_blue : {0, 60},
   brightness_cutoff : {0, 50, 100}]

CalibrationArgs == [fn : {"apply_calibration"}, rgb : InputRgb, cal : InputCutoffs]

\* Byte buffers to decode: frames of up to MaxLeds LEDs whose bytes have one
\* and two hex digits, all digits among them.
PureLeds ==
  {<<0, 9, 10>>, <<15, 16, 171>>, <<255, 1, 35>>, <<69, 103, 137>>, <<205, 239, 78>>}

RECURSIVE Flatten(_)
Flatten(leds) == IF leds = <<>> THEN <<>> ELSE Head(leds) \o Flatten(Tail(leds))

FrameBuffers == {Flatten(leds) : leds \in UNION {[1 .. n -> PureLeds] : n \in 0 .. MaxLeds}}

FrameArgs == [fn : {"decode_frame"}, buf : FrameBuffers]

VARIABLES
  mode,                   \* _mode
  sync_interval,          \* _sync_interval, in clock ticks
  command_spacing,        \* _command_spacing, in clock ticks
  led_out_topic,          \* _led_out_topic
  command_topic,          \* _command_topic
  groups,                 \* _groups
  calibration,            \* the cutoffs of the calibration settings
  now,                    \* time.monotonic(), in clock ticks
  phase,                  \* lifecycle as the callers drive it, and async_unload's position
  frame_unsub,            \* TRUE while _frame_unsub holds the callback of a frame-topic subscription
  state_listener_unsub,   \* TRUE while the light-state subscription is active
  frame_subs,             \* per frame-topic subscription made, the calls of its unsubscribe callback
  state_subs,             \* the same per light-state subscription
  setup_waiting,          \* the async_setup calls suspended in mqtt.async_subscribe: <<those made
                          \* since the last async_unload call, those an async_unload call overtook>>
  command_worker,         \* _command_worker: 0 (None) or the task's id
  wpc,                    \* position of every dispatch worker task
  witem,                  \* the command a worker is sending
  awaited,                \* the worker task async_unload is awaiting (0: none)
  holding,                \* the worker tasks between a returned queue.get() and its task_done()
  command_queue,          \* _command_queue
  queued_entities,        \* _queued_entities
  pending_light_commands, \* _pending_light_commands
  unfinished_tasks,       \* _command_queue._unfinished_tasks
  group_rgb,              \* _group_rgb
  group_brightness,       \* _group_brightness
  last_groups_signal,     \* _last_groups_signal
  led_count,              \* _led_count
  lights,                 \* hass.states: the state of every grouped light
  broadcast_pending,      \* _broadcast_pending: 0 (None) or the task's id
  bpc,                    \* position of every debounce task
  bwake,                  \* the clock reading at which a sleeping debounce task wakes
  last_broadcast_publish, \* _last_broadcast_publish
  outbox,                 \* the payload last handed to mqtt.async_publish for the topic _led_out_topic
  rgb_command,            \* _rgb_command
  brightness_level,       \* _brightness_level
  colour_calls,           \* the calls of async_publish_colour suspended in mqtt.async_publish: of each, its colour and level
  command_out,            \* the topic and the payload async_publish_colour last handed to mqtt.async_publish
  frame,                  \* _frame
  last_listen_update,     \* _last_listen_update
  wwake,                  \* the clock reading at which a worker's spacing sleep ends
  owed,                   \* history: target -> last command enqueued and not yet serviced or discarded
  overwritten,            \* history: targets whose waiting command was replaced by another
  coalesced,              \* history: workers whose call in flight carries a replacing command
  before,                 \* history: <<a, b>>: a was first enqueued before b, both still waiting
  dirty,                  \* history: a notification arrived after the states of the last frame were read
  pub_at,                 \* history: the clock reading of the last publish
  burst,                  \* history: the triggers of one sync_interval and what they caused
  heard,                  \* history: the last payload delivered and what its handling did
  called_at,              \* history: the clock reading of the last outbound call
  args,                   \* the function of the colour arithmetic being called and its arguments
  result                  \* what that call returned (None: not returned yet)

cfgvars == <<mode, sync_interval, command_spacing, led_out_topic, command_topic, groups,
             calibration>>
cmdvars == <<rgb_command, brightness_level, colour_calls, command_out>>
lifevars == <<phase, frame_unsub, state_listener_unsub, frame_subs, state_subs, setup_waiting>>
workervars == <<command_worker, wpc, witem, awaited, holding>>
queuevars == <<command_queue, queued_entities, pending_light_commands, unfinished_tasks>>
groupvars == <<group_rgb, group_brightness, last_groups_signal>>
histvars == <<owed, overwritten, coalesced, before>>
bcastvars == <<led_count, lights, broadcast_pending, bpc, bwake, last_broadcast_publish,
               outbox>>
bhistvars == <<dirty, pub_at, burst>>
framevars == <<frame, last_listen_update>>
purevars == <<args, result>>
vars == <<cfgvars, cmdvars, now, lifevars, workervars, queuevars, groupvars, histvars, bcastvars,
          bhistvars, framevars, wwake, heard, called_at, purevars>>

\* ------------------------------------------------------------- commands
\* LightServiceCommand(service, data); data holds entity_id, rgb_color,
\* brightness and transition when they are set.
TransitionData(transition) == IF transition > 0 THEN Some(transition) ELSE None

TurnOnCommand(entity_id, colour, brightness, transition) ==
  [transition |-> TransitionData(transition), entity_id |-> entity_id,
   brightness |-> brightness, service |-> "turn_on", rgb_color |-> Some(colour)]

TurnOffCommand(entity_id, transition) ==
  [transition |-> TransitionData(transition), entity_id |-> entity_id,
   brightness |-> None, service |-> "turn_off", rgb_color |-> None]

NoItem == [transition |-> None, entity_id |-> "", brightness |-> None,
           service |-> "none", rgb_color |-> None]

\* _call_light(entity_id, colour, brightness, apply_calibration=False): the
\* command it hands to _queue_light_service.
CallLightCommand(entity_id, colour, brightness) ==
  IF brightness # None /\ brightness[1] <= 0
  THEN TurnOffCommand(entity_id, DEFAULT_TRANSITION)
  ELSE TurnOnCommand(entity_id, colour,
                     IF brightness # None THEN Some(Clamp255(brightness[1])) ELSE None,
                     DEFAULT_TRANSITION)

\* ------------------------------------------------------------ dispatcher
\* The dispatcher's fields as one record, so that a handler that enqueues
\* several commands is one action.
Dispatcher ==
  [wpc |-> wpc, worker |-> command_worker, queue |-> command_queue,
   queued |-> queued_entities, pending |-> pending_light_commands,
   unfinished |-> unfinished_tasks]

WorkerAlive(d) == d.worker # 0 /\ d.wpc[d.worker] # "done"

FreeSlots(d) == {w \in WorkerIds : d.wpc[w] = "none"}

\* The slot of the task _ensure_command_worker creates: that of the finished
\* task it replaces, unless async_unload still awaits that task.
NewWorkerSlot(d) ==
  IF d.worker # 0 /\ d.worker # awaited
  THEN d.worker
  ELSE CHOOSE w \in FreeSlots(d) : \A v \in FreeSlots(d) : w <= v

CanEnsureWorker(d) ==
  WorkerAlive(d) \/ (d.worker # 0 /\ d.worker # awaited) \/ FreeSlots(d) # {}

\* Mutant: the worker task is never started.
EnsureCommandWorker_NeverStarts(d) == d

\* _ensure_command_worker
EnsureCommandWorker(d) ==
  IF WorkerAlive(d)
  THEN d
  ELSE LET w == NewWorkerSlot(d)
       IN [d EXCEPT !.worker = w, !.wpc = [@ EXCEPT ![w] = "idle"]]

\* dict[key] = value
DictSet(m, k, v) == [x \in DOMAIN m \cup {k} |-> IF x = k THEN v ELSE m[x]]
\* dict without key
DictDel(m, k) == [x \in DOMAIN m \ {k} |-> m[x]]
EmptyDict == [x \in {} |-> NoItem]

\* Mutant: a target that is already queued keeps its first command.
QueueLightService_KeepsFirst(d, entity_id, command) ==
  LET d1 == EnsureCommandWorker(d)
  IN [d1 EXCEPT
        !.pending = IF entity_id \in d1.queued THEN @ ELSE DictSet(@, entity_id, command),
        !.queued = @ \cup {entity_id},
        !.queue = IF entity_id \in d1.queued THEN @ ELSE Append(@, entity_id),
        !.unfinished = IF entity_id \in d1.queued THEN @ ELSE @ + 1]

\* Mutant: overwriting a queued target moves it to the back of the queue.
QueueLightService_Requeues(d, entity_id, command) ==
  LET d1 == EnsureCommandWorker(d)
  IN [d1 EXCEPT
        !.pending = DictSet(@, entity_id, command),
        !.queued = @ \cup {entity_id},
        !.queue = Append(SelectSeq(@, LAMBDA x : x # entity_id), entity_id),
        !.unfinished = IF entity_id \in d1.queued THEN @ ELSE @ + 1]

\* Mutant: the identifier is put on the queue at every enqueue.
QueueLightService_AlwaysPuts(d, entity_id, command) ==
  LET d1 == EnsureCommandWorker(d)
  IN [d1 EXCEPT
        !.pending = DictSet(@, entity_id, command),
        !.queued = @ \cup {entity_id},
        !.queue = Append(@, entity_id),
        !.unfinished = @ + 1]

\* _queue_light_service(entity_id, command)
QueueLightService(d, entity_id, command) ==
  LET d1 == EnsureCommandWorker(d)
  IN [d1 EXCEPT
        !.pending = DictSet(@, entity_id, command),
        !.queued = @ \cup {entity_id},
        !.queue = IF entity_id \in d1.queued THEN @ ELSE Append(@, entity_id),
        !.unfinished = IF entity_id \in d1.queued THEN @ ELSE @ + 1]

\* A handler's successive _queue_light_service calls, in order.
RECURSIVE QueueAll(_, _)
QueueAll(d, commands) ==
  IF commands = <<>>
  THEN d
  ELSE QueueAll(QueueLightService(d, Head(commands).entity_id, Head(commands)),
                Tail(commands))

\* History of the enqueues, kept apart from the dispatcher's own fields.
History ==
  [owed |-> owed, overwritten |-> overwritten, coalesced |-> coalesced, before |-> before]

NoteEnqueue(h, command) ==
  LET e == command.entity_id
      waiting == DOMAIN h.owed
  IN [owed |-> DictSet(h.owed, e, command),
      overwritten |-> IF e \in waiting /\ h.owed[e] # command
                      THEN h.overwritten \cup {e} ELSE h.overwritten,
      coalesced |-> h.coalesced,
      before |-> IF e \in waiting THEN h.before
                 ELSE h.before \cup {<<a, e>> : a \in waiting}]

RECURSIVE NoteAll(_, _)
NoteAll(h, commands) ==
  IF commands = <<>> THEN h ELSE NoteAll(NoteEnqueue(h, Head(commands)), Tail(commands))

NoteServiced(h, e, w) ==
  [owed |-> DictDel(h.owed, e),
   overwritten |-> h.overwritten \ {e},
   coalesced |-> IF e \in h.overwritten THEN h.coalesced \cup {w} ELSE h.coalesced \ {w},
   before |-> {p \in h.before : p[1] # e /\ p[2] # e}]

\* After the flush of async_unload nothing is waiting; calls in flight stay.
NoHistory == [owed |-> EmptyDict, overwritten |-> {}, coalesced |-> coalesced, before |-> {}]

\* Mutant: task_done leaves the queue's count as it is.
TaskDone_Forgotten(unfinished) == unfinished

\* asyncio.Queue.task_done() on the count of unfinished tasks
TaskDone(unfinished) == unfinished - 1

\* async_unload's flush: get_nowait() and task_done() until the queue is empty
FlushQueue(unfinished, queue) == unfinished - Len(queue)

SetDispatcher(d) ==
  /\ command_worker' = d.worker
  /\ wpc' = d.wpc
  /\ command_queue' = d.queue
  /\ queued_entities' = d.queued
  /\ pending_light_commands' = d.pending
  /\ unfinished_tasks' = d.unfinished

SetHistory(h) ==
  /\ owed' = h.owed
  /\ overwritten' = h.overwritten
  /\ coalesced' = h.coalesced
  /\ before' = h.before

\* ----------------------------------------------------------- group state
\* _rgb_to_brightness
RgbToBrightness(colour) == Clamp255(Max3(colour))

\* _set_group_state(group_index, rgb, brightness) on the two lists
SetGroupStateRgb(rgbs, group_index, rgb) ==
  IF group_index < 0 \/ group_index >= Len(rgbs)
  THEN rgbs
  ELSE IF rgb = None
       THEN [rgbs EXCEPT ![group_index + 1] = None]
       ELSE [rgbs EXCEPT ![group_index + 1] =
               Some(<<Clamp255(rgb[1][1]), Clamp255(rgb[1][2]), Clamp255(rgb[1][3])>>)]

\* Mutant: a brightness that is given is stored as it is given.
SetGroupStateBrightness_AsGiven(brs, group_index, rgb, brightness) ==
  IF group_index < 0 \/ group_index >= Len(brs)
  THEN brs
  ELSE IF rgb = None
       THEN [brs EXCEPT ![group_index + 1] = None]
       ELSE IF brightness = None
            THEN [brs EXCEPT ![group_index + 1] = Some(RgbToBrightness(rgb[1]))]
            ELSE [brs EXCEPT ![group_index + 1] = brightness]

SetGroupStateBrightness(brs, group_index, rgb, brightness) ==
  IF group_index < 0 \/ group_index >= Len(brs)
  THEN brs
  ELSE IF rgb = None
       THEN [brs EXCEPT ![group_index + 1] = None]
       ELSE IF brightness = None
            THEN [brs EXCEPT ![group_index + 1] = Some(RgbToBrightness(rgb[1]))]
            ELSE [brs EXCEPT ![group_index + 1] = Some(Clamp255(brightness[1]))]

\* Mutant: the signal is sent at every request.
DispatchGroupsSignal_Unthrottled(last, t, force) == t

\* _dispatch_groups_signal(now, force): the new _last_groups_signal
DispatchGroupsSignal(last, t, force) ==
  IF force \/ sync_interval <= 0 \/ t - last >= sync_interval THEN t ELSE last

\* ------------------------------------------------------------ light states
\* hass.states.get(entity_id): no state object, or the attributes of the light
\* that _get_entity_colour reads.  has_rgb tells whether the rgb_color
\* attribute is there (its value may be None); hs_color and brightness are None
\* when absent.
NoState ==
  [brightness |-> None, rgb_color |-> None, present |-> FALSE, has_rgb |-> FALSE,
   hs_color |-> None]

\* A light with an rgb_color (none when rgb is None) and no hs_color.
LightState(rgb, brightness) ==
  [brightness |-> brightness, rgb_color |-> rgb, present |-> TRUE,
   has_rgb |-> rgb # None, hs_color |-> None]

\* A light with hs_color = (hue, saturation) and no rgb_color attribute.
HsLightState(hs, brightness) ==
  [brightness |-> brightness, rgb_color |-> None, present |-> TRUE, has_rgb |-> FALSE,
   hs_color |-> Some(hs)]

\* A light whose rgb_color attribute is there with the value None.
NullRgbLightState(brightness) ==
  [brightness |-> brightness, rgb_color |-> None, present |-> TRUE, has_rgb |-> TRUE,
   hs_color |-> None]

\* The states a light reports once Home Assistant knows it.
LightStates ==
  {LightState(Some(<<255, 0, 0>>), Some(128)), LightState(Some(<<0, 0, 255>>), None)}

\* States of a light that reports no rgb_color to read: a hue and a saturation
\* only (full green, dimmed), an rgb_color of None without a brightness, and an
\* rgb_color of None with one.
OtherLightStates ==
  {HsLightState(<<120, 100>>, Some(128)), NullRgbLightState(None),
   NullRgbLightState(Some(128))}

\* An rgb_color with channels above 255 and no brightness, which
\* _get_entity_colour returns as it is.
BeyondLightState == LightState(Some(<<300, 300, 0>>), None)

\* The states of the lights a frame is painted from: a dimmed rgb_color, a
\* hue and a saturation without a brightness and, for light "a", which every
\* group list holds, the rgb_color with channels above 255.
PaintLightStates(e) ==
  {LightState(Some(<<255, 0, 0>>), Some(128)), HsLightState(<<120, 100>>, None)}
    \cup (IF e = "a" THEN {BeyondLightState} ELSE {})

\* Mutant: a tie is rounded up.
RoundHalfEven_TiesUp(num, den) == (2 * num + den) \div (2 * den)

\* round(num / den) for num >= 0, den > 0: Python rounds a tie to the even neighbour.
RoundHalfEven(num, den) ==
  LET q == num \div den
      r == num % den
  IN IF 2 * r < den THEN q
     ELSE IF 2 * r > den THEN q + 1
     ELSE IF q % 2 = 0 THEN q ELSE q + 1

\* color_util.color_hs_to_RGB(hue, saturation) for a hue that is a multiple of
\* 60 degrees and a whole saturation 0 .. 100: colorsys.hsv_to_rgb at value 1,
\* each channel times 255 and rounded.  The low channel is 255 * (100 - s) / 100;
\* in binary floating point the ties at saturation 70 and 90 fall to 77 and 25.
HsToRgb(hs) ==
  LET sector == (hs[1] \div 60) % 6
      low == IF hs[2] = 70 THEN 77
             ELSE IF hs[2] = 90 THEN 25
             ELSE RoundHalfEven(255 * (100 - hs[2]), 100)
  IN IF hs[2] = 0 THEN <<255, 255, 255>>
     ELSE CASE sector = 0 -> <<255, low, low>>
            [] sector = 1 -> <<255, 255, low>>
            [] sector = 2 -> <<low, 255, low>>
            [] sector = 3 -> <<low, 255, 255>>
            [] sector = 4 -> <<low, low, 255>>
            [] sector = 5 -> <<255, low, 255>>

\* What _get_entity_colour gives when the TypeError of iterating None leaves it.
TypeError == <<"TypeError", "'NoneType' object is not iterable">>

\* The colour _get_entity_colour starts from: rgb_color when the attribute is
\* there, else the conversion of hs_color; None when neither is there or
\* rgb_color is None.
AttributeColour(state) ==
  IF state.has_rgb THEN state.rgb_color
  ELSE IF state.hs_color # None THEN Some(HsToRgb(state.hs_color[1]))
  ELSE None

\* _get_entity_colour raises: rgb_color is None and there is a brightness, so
\* the scaling iterates None outside the try.
GetEntityColourRaises(state) ==
  state.present /\ state.has_rgb /\ state.rgb_color = None /\ state.brightness # None

\* _get_entity_colour on a state
GetEntityColour(state) ==
  IF ~state.present \/ (~state.has_rgb /\ state.hs_color = None)
  THEN None
  ELSE IF GetEntityColourRaises(state)
       THEN TypeError
       ELSE IF AttributeColour(state) = None
            THEN None
            ELSE LET colour == AttributeColour(state)[1]
                 IN IF state.brightness = None
                    THEN Some(colour)
                    ELSE LET scale == Max2(1, Min2(255, state.brightness[1]))
                         IN Some([i \in 1 .. 3 |->
                                    Clamp255(RoundHalfEven(colour[i] * scale, 255))])

RECURSIVE SumChannel(_, _)
SumChannel(colours, i) ==
  IF colours = <<>> THEN 0 ELSE Head(colours)[i] + SumChannel(Tail(colours), i)

\* Mutant: of the colours of maximal sum the last one is taken.
RECURSIVE Dominant_LastMaximal(_)
Dominant_LastMaximal(colours) ==
  IF Len(colours) = 1
  THEN Head(colours)
  ELSE LET rest == Dominant_LastMaximal(Tail(colours))
           h == Head(colours)
       IN IF h[1] + h[2] + h[3] > rest[1] + rest[2] + rest[3] THEN h ELSE rest

\* max(colour_list, key=sum): the first colour of maximal sum
RECURSIVE Dominant(_)
Dominant(colours) ==
  IF Len(colours) = 1
  THEN Head(colours)
  ELSE LET rest == Dominant(Tail(colours))
           h == Head(colours)
       IN IF h[1] + h[2] + h[3] >= rest[1] + rest[2] + rest[3] THEN h ELSE rest

\* str.lower() on a strategy name: the names written with capitals that a
\* configuration may carry; every other string the model uses is lower case.
Lower(strategy) ==
  CASE strategy \in {"Average", "AVERAGE"} -> "average"
    [] strategy \in {"Dominant", "DOMINANT"} -> "dominant"
    [] strategy \in {"Random", "RANDOM"} -> "random"
    [] strategy \in {"One_to_one", "ONE_TO_ONE"} -> "one_to_one"
    [] OTHER -> strategy

\* _aggregate_colour(colours, strategy); choice is what random.choice draws.
AggregateColour(colours, strategy, choice) ==
  IF colours = <<>>
  THEN None
  ELSE LET name == Lower(IF strategy = "" THEN "average" ELSE strategy)
       IN IF name = "random"
          THEN Some(colours[((choice - 1) % Len(colours)) + 1])
          ELSE IF name = "dominant"
               THEN Some(Dominant(colours))
               ELSE Some([i \in 1 .. 3 |->
                            RoundHalfEven(SumChannel(colours, i), Len(colours))])

\* round(c * (255 / brightness)) in binary floating point: the product of these
\* <<c, brightness>> falls just below, or just above, the tie it is exactly.
RoundsBelowTie ==
  {<<25, 50>>, <<45, 50>>, <<29, 58>>, <<50, 100>>, <<90, 100>>, <<53, 106>>, <<58, 116>>,
   <<91, 182>>, <<93, 186>>, <<100, 200>>, <<180, 200>>, <<103, 206>>, <<21, 210>>,
   <<49, 210>>, <<77, 210>>, <<105, 210>>, <<161, 210>>, <<189, 210>>, <<106, 212>>,
   <<116, 232>>, <<117, 234>>, <<121, 242>>}
RoundsAboveTie == {<<135, 162>>}

ScaleToFull(c, brightness) ==
  IF <<c, brightness>> \in RoundsBelowTie THEN (c * 255) \div brightness
  ELSE IF <<c, brightness>> \in RoundsAboveTie THEN ((c * 255) \div brightness) + 1
  ELSE RoundHalfEven(c * 255, brightness)

\* _rgb_intensity_to_service(rgb): <<rgb_norm, brightness>>
RgbIntensityToService(rgb) ==
  LET c == [i \in 1 .. 3 |-> Clamp255(rgb[i])]
      brightness == Max3(c)
  IN IF brightness <= 0
     THEN <<(<<0, 0, 0>>), 0>>
     ELSE <<[i \in 1 .. 3 |-> Clamp255(ScaleToFull(c[i], brightness))], brightness>>

\* [x for x in seq if x is not None], unwrapped
RECURSIVE NotNone(_)
NotNone(seq) ==
  IF seq = <<>> THEN <<>>
  ELSE IF Head(seq) = None THEN NotNone(Tail(seq))
       ELSE <<Head(seq)[1]>> \o NotNone(Tail(seq))

\* Mutant: a light without a colour counts as black.
GroupLightColours_BlackForMissing(group, states) ==
  [i \in 1 .. Len(group.entities) |->
     IF GetEntityColour(states[group.entities[i]]) = None
     THEN <<0, 0, 0>>
     ELSE GetEntityColour(states[group.entities[i]])[1]]

\* colours of a group's lights that have one
GroupLightColours(group, states) ==
  NotNone([i \in 1 .. Len(group.entities) |-> GetEntityColour(states[group.entities[i]])])

\* The draws of random.choice in one pass over the groups: one draw per group
\* whose strategy is random, from as many positions as the group may have
\* colours (its lights on the broadcast side, its LEDs on the listen side); a
\* group that does not draw has the one value 1.
RandomDraws(group) ==
  IF Lower(group.strategy) = "random"
  THEN 1 .. Max2(Len(group.entities), Len(group.led_indices))
  ELSE {1}

RandomChoices ==
  {choice \in [1 .. Len(groups) -> UNION {RandomDraws(groups[g]) : g \in 1 .. Len(groups)}] :
     \A g \in 1 .. Len(groups) : choice[g] \in RandomDraws(groups[g])}

\* _update_group_states_from_lights: the colour it stores for one group
GroupColourFromLights(group, states, choice) ==
  AggregateColour(GroupLightColours(group, states),
                  IF group.strategy = "one_to_one" THEN "average" ELSE group.strategy,
                  choice)

\* The first group, counted from 1, one of whose lights makes
\* _get_entity_colour raise; 0 when none does.
RaisingGroup(states) ==
  LET raising == {g \in 1 .. Len(groups) :
                    \E i \in 1 .. Len(groups[g].entities) :
                      GetEntityColourRaises(states[groups[g].entities[i]])}
  IN IF raising = {} THEN 0 ELSE CHOOSE g \in raising : \A h \in raising : g <= h

\* The groups _update_group_states_from_lights gets through: all of them, or
\* those before the one at which _get_entity_colour raises.
GroupsUpdated(states) ==
  IF RaisingGroup(states) = 0 THEN 1 .. Len(groups) ELSE 1 .. (RaisingGroup(states) - 1)

\* _update_group_states_from_lights on _group_rgb (_set_group_state,
\* _set_group_state_from_intensity)
UpdateGroupRgbFromLights(rgbs, states, choice) ==
  [g \in 1 .. Len(rgbs) |->
     IF g \notin GroupsUpdated(states)
     THEN rgbs[g]
     ELSE LET colour == GroupColourFromLights(groups[g], states, choice[g])
          IN IF colour = None THEN None ELSE Some(RgbIntensityToService(colour[1])[1])]

\* _update_group_states_from_lights on _group_brightness
UpdateGroupBrightnessFromLights(brs, states, choice) ==
  [g \in 1 .. Len(brs) |->
     IF g \notin GroupsUpdated(states)
     THEN brs[g]
     ELSE LET colour == GroupColourFromLights(groups[g], states, choice[g])
          IN IF colour = None THEN None ELSE Some(RgbIntensityToService(colour[1])[2])]

\* ------------------------------------------------------------------ frames
\* A hex string is the sequence of its digits' values; a character that is no
\* hex digit stands in it as its character code.
RECURSIVE HexDigits(_)
HexDigits(n) == IF n < 16 THEN <<n>> ELSE HexDigits(n \div 16) \o <<n % 16>>

\* "-"
MinusSign == 45

\* Mutant: "%x", a byte below 16 gets one digit.
Hex02_Unpadded(n) == HexDigits(n)

\* "%02x" % n: a negative n is a sign and the digits of -n, in two characters
\* at least
Hex02(n) ==
  IF n < 0 THEN <<MinusSign>> \o HexDigits(-n)
  ELSE IF n < 16 THEN <<0, n>> ELSE HexDigits(n)

\* "%02x%02x%02x" % colour
HexColour(colour) == Hex02(colour[1]) \o Hex02(colour[2]) \o Hex02(colour[3])

\* The character of a hex digit in UTF-8: "0" .. "9", "a" .. "f".
HexChar(d) == IF d < 10 THEN 48 + d ELSE 87 + d

\* str(n) in UTF-8, n >= 0
RECURSIVE DecimalText(_)
DecimalText(n) ==
  IF n < 10 THEN <<48 + n>> ELSE DecimalText(n \div 10) \o <<48 + (n % 10)>>

\* _brightness_from_ha with _brightness_levels = levels; brightness * levels is
\* never halfway between two multiples of 255 when levels is even, so the
\* rounding of the float is that of the fraction.
BrightnessFromHa(brightness, levels) ==
  Max2(1, Min2(Max2(1, levels),
               RoundHalfEven(Max2(1, Min2(255, brightness)) * Max2(1, levels), 255)))

\* The payload of async_publish_colour as mqtt.async_publish encodes it
\* (UTF-8): "rrggbb" without a level, else what json.dumps makes of the
\* colour and the level, {"colour": "#rrggbb", "brightness": level}.
ColourPayload(rgb_tuple, level) ==
  LET hex == [i \in 1 .. 6 |-> HexChar(HexColour(rgb_tuple)[i])]
  IN IF level = None
     THEN hex
     ELSE <<123, 34, 99, 111, 108, 111, 117, 114, 34, 58, 32, 34, 35>> \o hex
            \o <<34, 44, 32, 34, 98, 114, 105, 103, 104, 116, 110, 101, 115, 115, 34, 58, 32>>
            \o DecimalText(level[1]) \o <<125>>

\* bytes.fromhex(col): None when it raises (an odd number of digits, or a
\* character that is no hex digit)
RECURSIVE BytesFromHex(_)
BytesFromHex(col) ==
  IF col = <<>> THEN Some(<<>>)
  ELSE IF Len(col) = 1 \/ col[1] \notin 0 .. 15 \/ col[2] \notin 0 .. 15 THEN None
       ELSE LET rest == BytesFromHex(Tail(Tail(col)))
            IN IF rest = None THEN None
               ELSE Some(<<16 * col[1] + col[2]>> \o rest[1])

\* Mutant: the lights without a colour are dropped before the pairing, so the
\* lights after them move up to the earlier LED indices.
RECURSIVE PaintOneToOne_DropsColourless(_, _, _, _, _)
PaintOneToOne_DropsColourless(fr, group, states, count, i) ==
  LET colours == GroupLightColours(group, states)
  IN IF i > Min2(Len(colours), Len(group.led_indices))
     THEN fr
     ELSE LET led_idx == group.led_indices[i]
          IN PaintOneToOne_DropsColourless(
               IF led_idx >= count
               THEN fr
               ELSE [fr EXCEPT ![led_idx + 1] = HexColour(colours[i])],
               group, states, count, i + 1)

\* One group's writes into the frame, LED by LED (zip stops at the shorter list).
RECURSIVE PaintOneToOne(_, _, _, _, _)
PaintOneToOne(fr, group, states, count, i) ==
  IF i > Min2(Len(group.entities), Len(group.led_indices))
  THEN fr
  ELSE LET colour == GetEntityColour(states[group.entities[i]])
           led_idx == group.led_indices[i]
       IN PaintOneToOne(IF colour = None \/ led_idx >= count
                        THEN fr
                        ELSE [fr EXCEPT ![led_idx + 1] = HexColour(colour[1])],
                        group, states, count, i + 1)

PaintGroup(fr, group, states, count, choice) ==
  IF group.led_indices = <<>>
  THEN fr
  ELSE IF group.strategy = "one_to_one"
       THEN PaintOneToOne(fr, group, states, count, 1)
       ELSE LET colour == AggregateColour(GroupLightColours(group, states),
                                          group.strategy, choice)
                leds == {group.led_indices[i] : i \in 1 .. Len(group.led_indices)}
            IN IF colour = None
               THEN fr
               ELSE [k \in 1 .. Len(fr) |->
                       IF (k - 1) \in leds THEN HexColour(colour[1]) ELSE fr[k]]

RECURSIVE PaintGroups(_, _, _, _, _)
PaintGroups(fr, g, states, count, choice) ==
  IF g > Len(groups)
  THEN fr
  ELSE PaintGroups(PaintGroup(fr, groups[g], states, count, choice[g]),
                   g + 1, states, count, choice)

\* Mutant: the frame is built for the configured LED count, whatever inbound
\* frames have been accepted.
BuildFrameFromGroups_ConfiguredCount(states, count, choice) ==
  PaintGroups([k \in 1 .. ConfLedCount |-> <<0, 0, 0, 0, 0, 0>>], 1, states,
              ConfLedCount, choice)

\* _build_frame_from_groups
BuildFrameFromGroups(states, count, choice) ==
  LET n == Max2(1, count)
  IN PaintGroups([k \in 1 .. n |-> <<0, 0, 0, 0, 0, 0>>], 1, states, n, choice)

\* _publish_frame_bytes up to the publish: the payload, None when fromhex raises
RECURSIVE FramePayload(_)
FramePayload(fr) ==
  IF fr = <<>> THEN Some(<<>>)
  ELSE LET first == BytesFromHex(Head(fr))
           rest == FramePayload(Tail(fr))
       IN IF first = None \/ rest = None THEN None ELSE Some(first[1] \o rest[1])

\* Mutant: the colours are decoded last LED first.
RECURSIVE DecodeColours_Reversed(_)
DecodeColours_Reversed(buf) ==
  IF Len(buf) < 3
  THEN <<>>
  ELSE DecodeColours_Reversed(SubSeq(buf, 4, Len(buf)))
         \o <<Hex02(buf[1]) \o Hex02(buf[2]) \o Hex02(buf[3])>>

\* ---------------------------------------------------------- inbound frames
\* f"{r:02x}{g:02x}{b:02x}" for every three bytes of buf, in order
RECURSIVE DecodeColours(_)
DecodeColours(buf) ==
  IF Len(buf) < 3
  THEN <<>>
  ELSE <<Hex02(buf[1]) \o Hex02(buf[2]) \o Hex02(buf[3])>>
         \o DecodeColours(SubSeq(buf, 4, Len(buf)))

\* The hex strings the decoding produces, as arguments of _hex_to_rgb.
HexArgs == [fn : {"hex_to_rgb"}, colour : {DecodeColours(led)[1] : led \in PureLeds}]

\* LgFrameState(colours, updated_at, payload_len, led_count); updated_at is the
\* wall clock and is left out.
FrameState(buf) ==
  LET colours == DecodeColours(buf)
  IN [colours |-> colours, led_count |-> Len(colours), payload_len |-> Len(buf)]

\* _hex_to_rgb on a string of hex digits: rjust(6, "0"), then the first six digits
HexToRgb(colour) ==
  LET c == IF Len(colour) < 6 THEN [i \in 1 .. (6 - Len(colour)) |-> 0] \o colour ELSE colour
  IN <<16 * c[1] + c[2], 16 * c[3] + c[4], 16 * c[5] + c[6]>>

\* Mutant: the overall cutoff is tested on the channels before the per-channel
\* cutoffs.
ApplyCalibration_OverallFirst(rgb, cal) ==
  LET c == [i \in 1 .. 3 |-> Clamp255(rgb[i])]
  IN IF cal.brightness_cutoff # 0 /\ Max3(c) < cal.brightness_cutoff
     THEN <<0, 0, 0>>
     ELSE <<IF c[1] < cal.cutoff_red THEN 0 ELSE c[1],
            IF c[2] < cal.cutoff_green THEN 0 ELSE c[2],
            IF c[3] < cal.cutoff_blue THEN 0 ELSE c[3]>>

\* apply_calibration with temperature_shift = 0 and both gains = 1: the clamp,
\* the HSV conversion there and back (which returns the colour it was given),
\* the per-channel cutoffs, then the overall cutoff.
ApplyCalibration(rgb, cal) ==
  LET r == IF Clamp255(rgb[1]) < cal.cutoff_red THEN 0 ELSE Clamp255(rgb[1])
      g == IF Clamp255(rgb[2]) < cal.cutoff_green THEN 0 ELSE Clamp255(rgb[2])
      b == IF Clamp255(rgb[3]) < cal.cutoff_blue THEN 0 ELSE Clamp255(rgb[3])
  IN IF cal.brightness_cutoff # 0 /\ Max3(<<r, g, b>>) < cal.brightness_cutoff
     THEN <<0, 0, 0>>
     ELSE <<r, g, b>>

\* Mutant: black is sent as a turn-on with brightness 0.
CallLightIntensityCommand_AlwaysOn(entity_id, colour, transition) ==
  TurnOnCommand(entity_id, RgbIntensityToService(colour)[1],
                Some(RgbIntensityToService(colour)[2]), transition)

\* _call_light_intensity(entity_id, colour): the command it hands to
\* _queue_light_service.
CallLightIntensityCommand(entity_id, colour, transition) ==
  LET service == RgbIntensityToService(colour)
  IN IF service[2] <= 0
     THEN TurnOffCommand(entity_id, transition)
     ELSE TurnOnCommand(entity_id, service[1], Some(service[2]), transition)

\* Mutant: the colour is stored as it is given.
SetGroupStateFromIntensityRgb_AsGiven(rgbs, group_index, rgb) ==
  IF group_index < 0 \/ group_index >= Len(rgbs)
  THEN rgbs
  ELSE IF rgb = None
       THEN [rgbs EXCEPT ![group_index + 1] = None]
       ELSE [rgbs EXCEPT ![group_index + 1] = Some([i \in 1 .. 3 |-> Clamp255(rgb[1][i])])]

\* _set_group_state_from_intensity(group_index, rgb) on the two lists
SetGroupStateFromIntensityRgb(rgbs, group_index, rgb) ==
  IF group_index < 0 \/ group_index >= Len(rgbs)
  THEN rgbs
  ELSE IF rgb = None
       THEN [rgbs EXCEPT ![group_index + 1] = None]
       ELSE [rgbs EXCEPT ![group_index + 1] = Some(RgbIntensityToService(rgb[1])[1])]

SetGroupStateFromIntensityBrightness(brs, group_index, rgb) ==
  IF group_index < 0 \/ group_index >= Len(brs)
  THEN brs
  ELSE IF rgb = None
       THEN [brs EXCEPT ![group_index + 1] = None]
       ELSE [brs EXCEPT ![group_index + 1] = Some(RgbIntensityToService(rgb[1])[2])]

\* [idx for idx in group.led_indices if idx < len(rgb_frame)]
MatchedLeds(group, n) == SelectSeq(group.led_indices, LAMBDA idx : idx < n)

\* Mutant: the throttle is always open.
ThrottleOpen_Always(interval, t, last) == TRUE

\* interval <= 0 or now - self._last_listen_update[group_index] >= interval
ThrottleOpen(interval, t, last) == interval <= 0 \/ t - last >= interval

\* Mutant: entities beyond the matched LEDs are commanded with the last colour.
PairedCalls_AllEntities(group_index, group, processed) ==
  [k \in 1 .. Len(group.entities) |->
     [entity_id |-> group.entities[k], colour |-> processed[Min2(k, Len(processed))],
      group |-> group_index]]

\* zip(group.entities, processed): one call per pair
PairedCalls(group_index, group, processed) ==
  [k \in 1 .. Min2(Len(group.entities), Len(processed)) |->
     [entity_id |-> group.entities[k], colour |-> processed[k], group |-> group_index]]

\* for entity_id in group.entities: one call each, the same colour
GroupCalls(group_index, group, colour) ==
  [k \in 1 .. Len(group.entities) |->
     [entity_id |-> group.entities[k], colour |-> colour, group |-> group_index]]

\* Mutant: every colour is calibrated, then the calibrated colours are aggregated.
AggregateThenCalibrate_CalibrateFirst(subset, strategy, cal, choice) ==
  AggregateColour([k \in 1 .. Len(subset) |-> ApplyCalibration(subset[k], cal)],
                  strategy, choice)[1]

\* The colour a group of another strategy than one_to_one sends and shows:
\* aggregate, then calibrate once.
AggregateThenCalibrate(subset, strategy, cal, choice) ==
  ApplyCalibration(AggregateColour(subset, strategy, choice)[1], cal)

\* One turn of the loop of _process_listen_groups; acc holds the two group
\* lists, _last_listen_update, the _call_light_intensity calls made so far, the
\* groups whose throttle was closed, and whether the loop has raised.  A group
\* with a LED in the frame sets its state and then reads or assigns its slot of
\* _last_listen_update: IndexError when the list has no such slot (the list
\* async_unload emptied), and the loop ends there.
ProcessListenGroup(acc, group_index, group, rgb_frame, cal, interval, t, choice) ==
  LET led_indices == MatchedLeds(group, Len(rgb_frame))
      held == group_index < Len(acc.last)
      open == held /\ ThrottleOpen(interval, t, acc.last[group_index + 1])
      last == IF open THEN [acc.last EXCEPT ![group_index + 1] = t] ELSE acc.last
      throttled == IF open \/ ~held THEN acc.throttled ELSE acc.throttled \cup {group_index}
  IN IF led_indices = <<>>
     THEN [acc EXCEPT !.rgbs = SetGroupStateRgb(@, group_index, None),
                      !.brs = SetGroupStateBrightness(@, group_index, None, None)]
     ELSE IF group.strategy = "one_to_one"
          THEN LET processed ==
                     [k \in 1 .. Len(led_indices) |->
                        ApplyCalibration(rgb_frame[led_indices[k] + 1], cal)]
                   group_colour == AggregateColour(processed, "average", 1)
               IN [rgbs |-> SetGroupStateFromIntensityRgb(acc.rgbs, group_index, group_colour),
                   brs |-> SetGroupStateFromIntensityBrightness(acc.brs, group_index,
                                                                group_colour),
                   last |-> last,
                   throttled |-> throttled,
                   calls |-> IF open
                             THEN acc.calls \o PairedCalls(group_index, group, processed)
                             ELSE acc.calls,
                   raised |-> ~held]
          ELSE LET subset == [k \in 1 .. Len(led_indices) |-> rgb_frame[led_indices[k] + 1]]
                   processed_colour ==
                     AggregateThenCalibrate(subset, group.strategy, cal,
                                            choice[group_index + 1])
               IN [rgbs |-> SetGroupStateFromIntensityRgb(acc.rgbs, group_index,
                                                          Some(processed_colour)),
                   brs |-> SetGroupStateFromIntensityBrightness(acc.brs, group_index,
                                                                Some(processed_colour)),
                   last |-> last,
                   throttled |-> throttled,
                   calls |-> IF open
                             THEN acc.calls \o GroupCalls(group_index, group, processed_colour)
                             ELSE acc.calls,
                   raised |-> ~held]

\* Mutant: the loop ends at the first group that has no LED in the frame.
RECURSIVE ProcessListenGroups_StopsAtEmpty(_, _, _, _, _, _, _)
ProcessListenGroups_StopsAtEmpty(acc, group_index, rgb_frame, cal, interval, t, choice) ==
  IF group_index >= Len(groups) \/ acc.raised
  THEN acc
  ELSE IF MatchedLeds(groups[group_index + 1], Len(rgb_frame)) = <<>>
       THEN ProcessListenGroup(acc, group_index, groups[group_index + 1], rgb_frame, cal,
                               interval, t, choice)
       ELSE ProcessListenGroups_StopsAtEmpty(
              ProcessListenGroup(acc, group_index, groups[group_index + 1], rgb_frame, cal,
                                 interval, t, choice),
              group_index + 1, rgb_frame, cal, interval, t, choice)

\* _process_listen_groups, group by group, up to the group that raises
RECURSIVE ProcessListenGroups(_, _, _, _, _, _, _)
ProcessListenGroups(acc, group_index, rgb_frame, cal, interval, t, choice) ==
  IF group_index >= Len(groups) \/ acc.raised
  THEN acc
  ELSE ProcessListenGroups(
         ProcessListenGroup(acc, group_index, groups[group_index + 1], rgb_frame, cal,
                            interval, t, choice),
         group_index + 1, rgb_frame, cal, interval, t, choice)

\* Mutant: the calls of a handler are queued last call first.
CallCommands_Reversed(calls) ==
  [k \in 1 .. Len(calls) |->
     CallLightIntensityCommand(calls[Len(calls) + 1 - k].entity_id,
                               calls[Len(calls) + 1 - k].colour, DEFAULT_TRANSITION)]

\* The commands of a handler's _call_light_intensity calls, in order.
CallCommands(calls) ==
  [k \in 1 .. Len(calls) |->
     CallLightIntensityCommand(calls[k].entity_id, calls[k].colour, DEFAULT_TRANSITION)]

\* Mutant: every non-empty payload is accepted.
Accepted_AnyLength(payload) == payload # <<>>

\* A payload the handler accepts: not empty, a multiple of 3 long.
Accepted(payload) == payload # <<>> /\ Len(payload) % 3 = 0

\* force or interval <= 0 or now - self._last_groups_signal >= interval
GroupsSignalDue(last, t, force) == force \/ sync_interval <= 0 \/ t - last >= sync_interval

NoBurst ==
  [n |-> 0, first |-> 0, pubs |-> 0, tasks |-> 0, unread |-> FALSE, owing |-> 0,
   taken |-> 0]

\* No payload has been delivered yet.
NoFrameHeard ==
  [n |-> 0, throttled |-> {}, calls |-> <<>>, raised |-> FALSE, payload |-> <<>>,
   accepted |-> FALSE, state_signal |-> FALSE, groups_signal |-> FALSE]

\* The calibration settings with every cutoff at 0 (nothing is cut).
NoCutoffs == [cutoff_red |-> 0, cutoff_green |-> 0, cutoff_blue |-> 0, brightness_cutoff |-> 0]

\* Colours whose brightest channel is under 100 are cut to black.
DimCutoff == [cutoff_red |-> 0, cutoff_green |-> 0, cutoff_blue |-> 0, brightness_cutoff |-> 100]

\* ---------------------------------------------------------------- Init
\* The coordinator's fields after __init__.
InitCoordinator ==
  /\ phase = "constructed"
  /\ frame_unsub = FALSE
  /\ state_listener_unsub = FALSE
  /\ frame_subs = <<>>
  /\ state_subs = <<>>
  /\ setup_waiting = <<0, 0>>
  /\ command_worker = 0
  /\ wpc = [w \in WorkerIds |-> "none"]
  /\ witem = [w \in WorkerIds |-> NoItem]
  /\ awaited = 0
  /\ holding = {}
  /\ command_queue = <<>>
  /\ queued_entities = {}
  /\ pending_light_commands = EmptyDict
  /\ unfinished_tasks = 0
  /\ group_rgb = [g \in 1 .. Len(groups) |-> None]
  /\ group_brightness = [g \in 1 .. Len(groups) |-> None]
  /\ last_groups_signal = 0
  /\ owed = EmptyDict
  /\ overwritten = {}
  /\ coalesced = {}
  /\ before = {}
  /\ led_count = ConfLedCount
  /\ broadcast_pending = 0
  /\ bpc = [t \in TaskIds |-> "none"]
  /\ bwake = [t \in TaskIds |-> 0]
  /\ last_broadcast_publish = 0
  /\ outbox = None
  /\ rgb_command = None
  /\ brightness_level = None
  /\ colour_calls = <<>>
  /\ command_out = None
  /\ dirty = FALSE
  /\ pub_at = None
  /\ burst = NoBurst
  /\ frame = None
  /\ last_listen_update = [g \in 1 .. Len(groups) |-> 0]
  /\ wwake = [w \in WorkerIds |-> 0]
  /\ heard = NoFrameHeard
  /\ called_at = None

\* No function of the colour arithmetic is being called on its own.
NoArgs == [fn |-> "none"]

\* The coordinator's fields after __init__, as the handlers find them.
InitFields ==
  /\ InitCoordinator
  /\ args = NoArgs
  /\ result = None

\* The state after __init__, with no light known to Home Assistant yet.
InitCommon ==
  /\ InitFields
  /\ lights = [e \in EntitiesOf(groups) |-> NoState]

\* Listen mode at one clock reading: the dispatcher and the lifecycle.
Init ==
  /\ mode = MODE_LISTEN
  /\ sync_interval = MaxInterval
  /\ command_spacing \in 0 .. MaxSpacing
  /\ led_out_topic = DEFAULT_LED_OUT_TOPIC
  /\ command_topic = DEFAULT_COMMAND_TOPIC
  /\ groups = Groups
  /\ calibration = NoCutoffs
  /\ now = 0
  /\ InitCommon

\* Broadcast mode, at any clock reading and with any interval; the outbound
\* topic may be left empty.
InitBroadcast ==
  /\ mode = MODE_BROADCAST
  /\ sync_interval \in 0 .. MaxInterval
  /\ command_spacing = 0
  /\ led_out_topic \in {"", DEFAULT_LED_OUT_TOPIC}
  /\ command_topic = DEFAULT_COMMAND_TOPIC
  /\ groups = Groups
  /\ calibration = NoCutoffs
  /\ now \in 0 .. MaxTime
  /\ InitCommon

\* Either mode, with and without throttling, either group list, with a
\* brightness cutoff: the frame handler.
InitFrames ==
  /\ mode \in {MODE_LISTEN, MODE_BROADCAST}
  /\ sync_interval \in {0, MaxInterval}
  /\ command_spacing = 0
  /\ led_out_topic = DEFAULT_LED_OUT_TOPIC
  /\ command_topic = DEFAULT_COMMAND_TOPIC
  /\ groups \in {Groups, PairedGroups}
  /\ calibration = DimCutoff
  /\ now = 0
  /\ InitCommon

\* The subscriptions that deliver: those whose unsubscribe callback has not
\* been called.
ActiveSubs(subs) == {i \in 1 .. Len(subs) : subs[i] = 0}

\* ------------------------------------------------------------- lifecycle
\* A subscription is made: its unsubscribe callback has not been called.
Subscribed(subs) == Append(subs, 0)

\* The unsubscribe callback a field holds, that of the last subscription made,
\* is called.
Unsubscribed(subs) == [subs EXCEPT ![Len(subs)] = @ + 1]

\* Mutant: async_unload calls the callbacks and keeps them.
UnsubscribeBoth_KeepsCallbacks ==
  /\ frame_subs' = IF frame_unsub THEN Unsubscribed(frame_subs) ELSE frame_subs
  /\ state_subs' = IF state_listener_unsub THEN Unsubscribed(state_subs) ELSE state_subs
  /\ setup_waiting' = <<0, setup_waiting[1] + setup_waiting[2]>>
  /\ UNCHANGED <<frame_unsub, state_listener_unsub>>

\* async_unload's first lines: each callback that is held is called and dropped.
\* An async_setup call suspended in mqtt.async_subscribe holds none yet: it is
\* left waiting, overtaken by this call.
UnsubscribeBoth ==
  /\ frame_subs' = IF frame_unsub THEN Unsubscribed(frame_subs) ELSE frame_subs
  /\ frame_unsub' = FALSE
  /\ state_subs' = IF state_listener_unsub THEN Unsubscribed(state_subs) ELSE state_subs
  /\ state_listener_unsub' = FALSE
  /\ setup_waiting' = <<0, setup_waiting[1] + setup_waiting[2]>>

\* async_setup from `if self._mode == MODE_BROADCAST` on: in broadcast mode
\* track the lights, after dropping the tracker that is held, read them and
\* signal the groups; when _get_entity_colour raises, the exception leaves
\* async_setup before the signal.
SetupBroadcast ==
  IF mode = MODE_BROADCAST /\ groups # <<>>
  THEN \E choice \in RandomChoices :
         /\ state_listener_unsub' = TRUE
         /\ state_subs' = Subscribed(IF state_listener_unsub
                                     THEN Unsubscribed(state_subs) ELSE state_subs)
         /\ group_rgb' = UpdateGroupRgbFromLights(group_rgb, lights, choice)
         /\ group_brightness' =
              UpdateGroupBrightnessFromLights(group_brightness, lights, choice)
         /\ last_groups_signal' =
              IF RaisingGroup(lights) # 0
              THEN last_groups_signal
              ELSE DispatchGroupsSignal(last_groups_signal, now, TRUE)
  ELSE UNCHANGED <<state_listener_unsub, state_subs, groupvars>>

\* async_setup run to its end in one go: a subscription is held and none is
\* made, or `await mqtt.async_subscribe` returns without giving up the event
\* loop; then the broadcast part.  (led_in_topic is set.)
SetupCall ==
  /\ frame_unsub' = TRUE
  /\ frame_subs' = IF frame_unsub THEN frame_subs ELSE Subscribed(frame_subs)
  /\ phase' = "running"
  /\ SetupBroadcast
  /\ UNCHANGED <<cfgvars, cmdvars, purevars, framevars, wwake, heard, called_at, now, bcastvars, bhistvars, workervars, queuevars, histvars,
                 setup_waiting>>

\* The async_setup calls suspended in mqtt.async_subscribe.
SetupsWaiting == setup_waiting[1] + setup_waiting[2]

\* async_setup up to `await mqtt.async_subscribe` when that gives up the event
\* loop: no callback is held, so the test `not self._frame_unsub` passes, and
\* the call waits with no field changed.  Nothing in async_setup or
\* async_unload tests for a call in progress.
AsyncSetupSuspend ==
  /\ phase # "unloading"
  /\ ~frame_unsub
  /\ Len(frame_subs) + SetupsWaiting < MaxSubscriptions
  /\ Len(state_subs) + SetupsWaiting < MaxSubscriptions
  /\ setup_waiting' = <<setup_waiting[1] + 1, setup_waiting[2]>>
  /\ UNCHANGED <<cfgvars, cmdvars, purevars, framevars, wwake, heard, called_at, now, bcastvars, bhistvars, workervars, queuevars, histvars,
                 phase, frame_unsub, state_listener_unsub, frame_subs, state_subs, groupvars>>

\* mqtt.async_subscribe returns to a suspended async_setup: the subscription
\* is made and its callback is stored over whatever _frame_unsub holds by
\* then, with no second test; then the broadcast part.  Where an async_unload
\* call was made after this one (overtaken), the lifecycle stays as that call
\* leaves it.
AsyncSetupResume(overtaken) ==
  /\ setup_waiting[IF overtaken THEN 2 ELSE 1] > 0
  /\ setup_waiting' = IF overtaken
                      THEN <<setup_waiting[1], setup_waiting[2] - 1>>
                      ELSE <<setup_waiting[1] - 1, setup_waiting[2]>>
  /\ frame_unsub' = TRUE
  /\ frame_subs' = Subscribed(frame_subs)
  /\ phase' = IF overtaken THEN phase ELSE "running"
  /\ SetupBroadcast
  /\ UNCHANGED <<cfgvars, cmdvars, purevars, framevars, wwake, heard, called_at, now, bcastvars, bhistvars, workervars, queuevars, histvars>>

\* async_setup on the coordinator as constructed.
AsyncSetup == phase = "constructed" /\ SetupCall

\* async_setup called again, on a running or a stopped coordinator.
AsyncSetupAgain ==
  /\ phase \in {"running", "stopped"}
  /\ Len(frame_subs) < MaxSubscriptions
  /\ Len(state_subs) < MaxSubscriptions
  /\ SetupCall

\* Mutant: async_unload forgets the debounce task without cancelling it.
CancelBroadcast_LeavesTask ==
  /\ broadcast_pending' = 0
  /\ dirty' = FALSE
  /\ pub_at' = None
  /\ burst' = NoBurst
  /\ UNCHANGED <<bpc, bwake, led_count, lights, last_broadcast_publish, outbox>>

\* async_unload's cancel() of the debounce task: the task gets CancelledError
\* at the await it is suspended in, or never starts, and does nothing more.
CancelBroadcast ==
  /\ bpc' = IF broadcast_pending # 0 THEN [bpc EXCEPT ![broadcast_pending] = "none"] ELSE bpc
  /\ bwake' = IF broadcast_pending # 0 THEN [bwake EXCEPT ![broadcast_pending] = 0] ELSE bwake
  /\ broadcast_pending' = 0
  /\ dirty' = FALSE
  /\ pub_at' = None
  /\ burst' = NoBurst
  /\ UNCHANGED <<led_count, lights, last_broadcast_publish, outbox>>

\* async_unload from its first line to `await self._command_worker` when the
\* worker is alive: both unsubscribes, then cancel() of the worker.
AsyncUnloadCancel ==
  /\ phase = "running"
  /\ command_worker # 0 /\ wpc[command_worker] # "done"
  /\ UnsubscribeBoth
  /\ CancelBroadcast
  /\ wpc' = [wpc EXCEPT ![command_worker] = "cancelling"]
  /\ witem' = [witem EXCEPT ![command_worker] = NoItem]
  /\ wwake' = [wwake EXCEPT ![command_worker] = 0]
  /\ coalesced' = coalesced \ {command_worker}
  /\ awaited' = command_worker
  /\ phase' = "unloading"
  /\ UNCHANGED <<cfgvars, cmdvars, purevars, framevars, heard, called_at, now, command_worker, holding, queuevars, groupvars, owed,
                 overwritten, before>>

\* The cancelled worker's next step: CancelledError at its await, the task ends.
WorkerCancelled(w) ==
  /\ wpc[w] = "cancelling"
  /\ wpc' = [wpc EXCEPT ![w] = "done"]
  /\ unfinished_tasks' = IF w \in holding THEN TaskDone(unfinished_tasks) ELSE unfinished_tasks
  /\ holding' = holding \ {w}
  /\ UNCHANGED <<cfgvars, cmdvars, purevars, framevars, wwake, heard, called_at, now, bcastvars, bhistvars, lifevars, command_worker, witem,
                 awaited, command_queue, queued_entities, pending_light_commands,
                 groupvars, histvars>>

\* async_unload from `self._command_worker = None` to its end.
UnloadTail ==
  /\ command_worker' = 0
  /\ command_queue' = <<>>
  /\ queued_entities' = {}
  /\ pending_light_commands' = EmptyDict
  /\ unfinished_tasks' = FlushQueue(unfinished_tasks, command_queue)
  /\ frame' = None
  /\ group_rgb' = <<>>
  /\ group_brightness' = <<>>
  /\ last_listen_update' = <<>>
  /\ SetHistory(NoHistory)
  /\ phase' = "stopped"

\* async_unload resumes once the awaited worker has ended.  `self._command_worker
\* = None` drops the task _command_worker names then: the awaited one, or one
\* made while the unload was suspended, which is gone once it has ended too.
AsyncUnloadFinish ==
  /\ phase = "unloading"
  /\ wpc[awaited] = "done"
  /\ UnloadTail
  /\ wpc' = [w \in WorkerIds |->
              IF w = awaited \/ (w = command_worker /\ wpc[w] = "done")
              THEN "none" ELSE wpc[w]]
  /\ awaited' = 0
  /\ UNCHANGED <<cfgvars, cmdvars, purevars, wwake, heard, called_at, now, bcastvars, bhistvars, frame_unsub, state_listener_unsub,
                 frame_subs, state_subs, setup_waiting,
                 witem, holding,
                 last_groups_signal>>

\* async_unload with no worker or a finished one: it never suspends.
AsyncUnloadIdle ==
  /\ phase = "running"
  /\ ~(command_worker # 0 /\ wpc[command_worker] # "done")
  /\ UnsubscribeBoth
  /\ CancelBroadcast
  /\ UnloadTail
  /\ wpc' = IF command_worker # 0 THEN [wpc EXCEPT ![command_worker] = "none"] ELSE wpc
  /\ UNCHANGED <<cfgvars, cmdvars, purevars, wwake, heard, called_at, now, witem, awaited, holding, last_groups_signal>>

\* async_unload called again on a stopped coordinator that has no worker.
AsyncUnloadAgain ==
  /\ phase = "stopped"
  /\ ~(command_worker # 0 /\ wpc[command_worker] # "done")
  /\ UnsubscribeBoth
  /\ CancelBroadcast
  /\ UnloadTail
  /\ wpc' = IF command_worker # 0 THEN [wpc EXCEPT ![command_worker] = "none"] ELSE wpc
  /\ UNCHANGED <<cfgvars, cmdvars, purevars, wwake, heard, called_at, now, witem, awaited, holding, last_groups_signal>>

\* -------------------------------------------------------- group commands
GroupCommands(group_index, colour, brightness) ==
  LET ents == groups[group_index + 1].entities
  IN [i \in 1 .. Len(ents) |-> CallLightCommand(ents[i], colour, brightness)]

GroupOffCommands(group_index) ==
  LET ents == groups[group_index + 1].entities
  IN [i \in 1 .. Len(ents) |-> TurnOffCommand(ents[i], DEFAULT_TRANSITION)]

Enqueue(commands) ==
  /\ CanEnsureWorker(Dispatcher)
  /\ SetDispatcher(QueueAll(Dispatcher, commands))
  /\ SetHistory(NoteAll(History, commands))

\* async_set_group_colour(group_index, rgb, brightness)
AsyncSetGroupColour(group_index, rgb, brightness) ==
  /\ phase # "constructed"
  /\ IF group_index < 0 \/ group_index >= Len(groups)
     THEN UNCHANGED <<workervars, queuevars, groupvars, histvars>>
     ELSE /\ Enqueue(GroupCommands(group_index, rgb, brightness))
          /\ group_rgb' = SetGroupStateRgb(group_rgb, group_index, Some(rgb))
          /\ group_brightness' =
               SetGroupStateBrightness(group_brightness, group_index, Some(rgb), brightness)
          /\ last_groups_signal' = DispatchGroupsSignal(last_groups_signal, now, TRUE)
          /\ UNCHANGED <<witem, awaited, holding>>
  /\ UNCHANGED <<cfgvars, cmdvars, purevars, framevars, wwake, heard, called_at, now, bcastvars, bhistvars, lifevars>>

\* async_turn_off_group(group_index)
AsyncTurnOffGroup(group_index) ==
  /\ phase # "constructed"
  /\ IF group_index < 0 \/ group_index >= Len(groups)
     THEN UNCHANGED <<workervars, queuevars, groupvars, histvars>>
     ELSE /\ Enqueue(GroupOffCommands(group_index))
          /\ group_rgb' = SetGroupStateRgb(group_rgb, group_index, Some(<<0, 0, 0>>))
          /\ group_brightness' =
               SetGroupStateBrightness(group_brightness, group_index,
                                       Some(<<0, 0, 0>>), Some(0))
          /\ last_groups_signal' = DispatchGroupsSignal(last_groups_signal, now, TRUE)
          /\ UNCHANGED <<witem, awaited, holding>>
  /\ UNCHANGED <<cfgvars, cmdvars, purevars, framevars, wwake, heard, called_at, now, bcastvars, bhistvars, lifevars>>

\* ------------------------------------------------------- dispatch worker
\* random.uniform(0.0, spacing * 0.25), in whole clock ticks
Jitters(spacing) == 0 .. (Max2(spacing, 0) \div 4)

\* The end of asyncio.sleep(spacing + jitter) begun at t; 0 when no sleep is taken.
SpacingWake(spacing, t, jitter) == IF spacing > 0 THEN t + spacing + jitter ELSE 0

\* One turn of _async_command_worker's loop up to the outbound call:
\* queue.get(), the critical section, and hass.services.async_call being issued.
WorkerDrain(w) ==
  /\ wpc[w] = "idle"
  /\ command_queue # <<>>
  /\ LET entity_id == Head(command_queue)
         has == entity_id \in DOMAIN pending_light_commands
     IN /\ command_queue' = Tail(command_queue)
        /\ queued_entities' = queued_entities \ {entity_id}
        /\ pending_light_commands' = DictDel(pending_light_commands, entity_id)
        /\ IF has
           THEN /\ wpc' = [wpc EXCEPT ![w] = "call"]
                /\ witem' = [witem EXCEPT ![w] = pending_light_commands[entity_id]]
                /\ SetHistory(NoteServiced(History, entity_id, w))
                /\ called_at' = Some(now)
                /\ holding' = holding \cup {w}
                /\ UNCHANGED unfinished_tasks
           ELSE /\ unfinished_tasks' = TaskDone(unfinished_tasks)
                /\ UNCHANGED <<wpc, witem, holding, histvars, called_at>>
  /\ UNCHANGED <<cfgvars, cmdvars, purevars, framevars, wwake, heard, now, bcastvars, bhistvars, lifevars, command_worker, awaited,
                 groupvars>>

\* The outbound call returns: sleep when spacing > 0, else task_done and loop.
WorkerCallReturn(w) ==
  /\ wpc[w] = "call"
  /\ wpc' = [wpc EXCEPT ![w] = IF command_spacing > 0 THEN "sleep" ELSE "idle"]
  /\ \E jitter \in Jitters(command_spacing) :
       wwake' = [wwake EXCEPT ![w] = SpacingWake(command_spacing, now, jitter)]
  /\ witem' = [witem EXCEPT ![w] = NoItem]
  /\ coalesced' = coalesced \ {w}
  /\ IF command_spacing > 0
     THEN UNCHANGED <<holding, unfinished_tasks>>
     ELSE /\ holding' = holding \ {w}
          /\ unfinished_tasks' = TaskDone(unfinished_tasks)
  /\ UNCHANGED <<cfgvars, cmdvars, purevars, framevars, heard, called_at, now, bcastvars, bhistvars, lifevars, command_worker, awaited,
                 command_queue, queued_entities, pending_light_commands,
                 groupvars, owed, overwritten, before>>

\* Mutant: a command whose call raised is put back for another attempt.
WorkerCallFail_Requeues(w) ==
  /\ wpc[w] = "call"
  /\ wpc' = [wpc EXCEPT ![w] = IF w = command_worker \/ w = awaited THEN "done" ELSE "none"]
  /\ witem' = [witem EXCEPT ![w] = NoItem]
  /\ coalesced' = coalesced \ {w}
  /\ pending_light_commands' =
       IF witem[w].entity_id \in DOMAIN pending_light_commands
       THEN pending_light_commands
       ELSE DictSet(pending_light_commands, witem[w].entity_id, witem[w])
  /\ queued_entities' = queued_entities \cup {witem[w].entity_id}
  /\ command_queue' = IF witem[w].entity_id \in queued_entities
                      THEN command_queue
                      ELSE Append(command_queue, witem[w].entity_id)
  /\ holding' = holding \ {w}
  /\ unfinished_tasks' = IF witem[w].entity_id \in queued_entities
                         THEN TaskDone(unfinished_tasks)
                         ELSE unfinished_tasks
  /\ UNCHANGED <<cfgvars, cmdvars, purevars, framevars, wwake, heard, called_at, now, bcastvars, bhistvars,
                 lifevars, command_worker, awaited, groupvars, owed, overwritten, before>>

\* The outbound call raises: task_done in the finally, then the exception
\* leaves the loop (only CancelledError is caught) and the task ends.
WorkerCallFail(w) ==
  /\ wpc[w] = "call"
  /\ wpc' = [wpc EXCEPT ![w] = IF w = command_worker \/ w = awaited THEN "done" ELSE "none"]
  /\ witem' = [witem EXCEPT ![w] = NoItem]
  /\ coalesced' = coalesced \ {w}
  /\ holding' = holding \ {w}
  /\ unfinished_tasks' = TaskDone(unfinished_tasks)
  /\ UNCHANGED <<cfgvars, cmdvars, purevars, framevars, wwake, heard, called_at, now, bcastvars, bhistvars, lifevars, command_worker, awaited,
                 command_queue, queued_entities, pending_light_commands,
                 groupvars, owed, overwritten, before>>

\* The spacing sleep ends: task_done and loop.
WorkerWake(w) ==
  /\ wpc[w] = "sleep"
  /\ wpc' = [wpc EXCEPT ![w] = "idle"]
  /\ wwake' = [wwake EXCEPT ![w] = 0]
  /\ holding' = holding \ {w}
  /\ unfinished_tasks' = TaskDone(unfinished_tasks)
  /\ UNCHANGED <<cfgvars, cmdvars, purevars, framevars, heard, called_at, now, bcastvars, bhistvars, lifevars, command_worker, witem,
                 awaited, command_queue, queued_entities, pending_light_commands,
                 groupvars, histvars>>

\* asyncio.sleep(spacing + jitter) ends no earlier than its deadline.
WorkerWakeOnTime(w) == now >= wwake[w] /\ WorkerWake(w)

\* time.monotonic() advances, up to the horizon of the timed dispatcher runs.
SpacingTick ==
  /\ now < SpacingHorizon
  /\ now' = now + 1
  /\ UNCHANGED <<cfgvars, cmdvars, purevars, framevars, wwake, heard, called_at, lifevars, workervars, queuevars,
                 groupvars, histvars, bcastvars, bhistvars>>

\* ------------------------------------------------------ broadcast publisher
\* The debounce task's fields as one record.
Broadcaster == [pending |-> broadcast_pending, pc |-> bpc]

AliveTasks(b) == {t \in TaskIds : b.pc[t] \in {"ready", "sleep", "publish"}}
FreeTasks(b) == {t \in TaskIds : b.pc[t] = "none"}

\* self._broadcast_pending and not self._broadcast_pending.done()
BroadcastPending(b) == b.pending # 0 /\ b.pc[b.pending] # "done"

\* The slot of the task hass.async_create_task creates: that of the finished
\* task it replaces, else a free one.
NewTaskSlot(b) ==
  IF b.pending # 0 /\ b.pc[b.pending] = "done"
  THEN b.pending
  ELSE CHOOSE t \in FreeTasks(b) : \A u \in FreeTasks(b) : t <= u

CanSchedule(b) == (b.pending # 0 /\ b.pc[b.pending] = "done") \/ FreeTasks(b) # {}

CreateBroadcastTask(b) ==
  LET t == NewTaskSlot(b)
  IN [pending |-> t, pc |-> [b.pc EXCEPT ![t] = "ready"]]

\* Mutant: every trigger creates a task.
ScheduleBroadcastPublish_AlwaysCreates(b) == CreateBroadcastTask(b)

\* _schedule_broadcast_publish
ScheduleBroadcastPublish(b) ==
  IF BroadcastPending(b) THEN b ELSE CreateBroadcastTask(b)

\* Mutant: the task never waits.
DebounceDelay_NoWait(interval, t, last) == 0

\* _async_debounced_broadcast: delay = interval - (now - last publish)
DebounceDelay(interval, t, last) ==
  IF interval > 0 THEN interval - (t - last) ELSE 0

\* Mutant: the publish leaves the timestamp as it was.
PublishedAt_Stale(last, t) == last

\* self._last_broadcast_publish = time.monotonic()
PublishedAt(last, t) == t

\* The triggers of one sync_interval, counted from a trigger that found no
\* debounce task alive: how many there were (up to TriggerBurst), when the first
\* came, and since then the frames handed to mqtt.async_publish and the tasks
\* created (each counted up to 3), whether reading the lights raised, the
\* tasks created that have neither handed a frame over nor been ended by a read
\* that raised, and the publishes that returned (counted up to 3; the others
\* raised or are in flight).
NoteTrigger(h, b, created) ==
  IF h.n > 0 /\ h.n < TriggerBurst /\ now - h.first < sync_interval
  THEN [h EXCEPT !.n = @ + 1, !.tasks = IF created THEN Min2(@ + 1, 3) ELSE @,
                 !.owing = IF created THEN @ + 1 ELSE @]
  ELSE IF AliveTasks(b) = {}
       THEN [n |-> 1, first |-> now, pubs |-> 0, tasks |-> 1, unread |-> FALSE,
             owing |-> 1, taken |-> 0]
       ELSE NoBurst

NotePublish(h) ==
  IF h.n > 0 THEN [h EXCEPT !.pubs = Min2(@ + 1, 3), !.owing = @ - 1] ELSE h

NoteRaisedRead(h) == IF h.n > 0 THEN [h EXCEPT !.unread = TRUE, !.owing = @ - 1] ELSE h

NoteReturnedPublish(h) == IF h.n > 0 THEN [h EXCEPT !.taken = Min2(@ + 1, 3)] ELSE h

\* Mutant: only the lights of the last group are subscribed to.
BroadcastTargets_LastGroup(gs) == EntitiesOf(<<gs[Len(gs)]>>)

\* The lights _setup_broadcast_listener subscribes to: every member of every
\* group.
BroadcastTargets(gs) == EntitiesOf(gs)

\* A light's state changes; the state-change listener, when subscribed to that
\* light, runs _schedule_broadcast_publish.
LightStateChange(e, state) ==
  /\ lights[e] # state
  /\ lights' = [lights EXCEPT ![e] = state]
  /\ IF state_listener_unsub /\ e \in BroadcastTargets(groups)
     THEN /\ CanSchedule(Broadcaster)
          /\ LET b == ScheduleBroadcastPublish(Broadcaster)
             IN /\ broadcast_pending' = b.pending
                /\ bpc' = b.pc
                /\ burst' = NoteTrigger(burst, Broadcaster, b.pc # bpc)
          /\ dirty' = TRUE
          /\ UNCHANGED pub_at
     ELSE UNCHANGED <<broadcast_pending, bpc, bhistvars>>
  /\ UNCHANGED <<cfgvars, cmdvars, purevars, framevars, wwake, heard, called_at, now, lifevars, workervars, queuevars, groupvars, histvars,
                 led_count, bwake, last_broadcast_publish, outbox>>

\* The debounce task ends.
TaskEnds(t) ==
  bpc' = [bpc EXCEPT ![t] = IF t = broadcast_pending THEN "done" ELSE "none"]

\* _publish_broadcast_frame up to the suspension in mqtt.async_publish, or to
\* its end when it returns before publishing.
PublishBroadcastFrame(t) ==
  IF mode # MODE_BROADCAST \/ groups = <<>> \/ led_out_topic = ""
  THEN /\ TaskEnds(t)
       /\ UNCHANGED <<groupvars, last_broadcast_publish, outbox, bhistvars>>
  ELSE IF RaisingGroup(lights) # 0
  THEN \E choice \in RandomChoices :
         /\ group_rgb' = UpdateGroupRgbFromLights(group_rgb, lights, choice)
         /\ group_brightness' =
              UpdateGroupBrightnessFromLights(group_brightness, lights, choice)
         /\ TaskEnds(t)
         /\ burst' = NoteRaisedRead(burst)
         /\ UNCHANGED <<last_groups_signal, last_broadcast_publish, outbox, dirty, pub_at>>
  ELSE \E choice \in RandomChoices, choice2 \in RandomChoices :
         LET payload == FramePayload(BuildFrameFromGroups(lights, led_count, choice2))
         IN /\ group_rgb' = UpdateGroupRgbFromLights(group_rgb, lights, choice)
            /\ group_brightness' =
                 UpdateGroupBrightnessFromLights(group_brightness, lights, choice)
            /\ last_groups_signal' = DispatchGroupsSignal(last_groups_signal, now, FALSE)
            /\ IF payload = None
               THEN /\ TaskEnds(t)
                    /\ last_broadcast_publish' = PublishedAt(last_broadcast_publish, now)
                    /\ UNCHANGED <<outbox, bhistvars>>
               ELSE /\ bpc' = [bpc EXCEPT ![t] = "publish"]
                    /\ outbox' = payload
                    /\ dirty' = FALSE
                    /\ pub_at' = Some(now)
                    /\ burst' = NotePublish(burst)
                    /\ UNCHANGED last_broadcast_publish

\* _async_debounced_broadcast from its start: sleep for the rest of the
\* interval, or publish at once.
DebounceStart(t) ==
  /\ bpc[t] = "ready"
  /\ LET delay == DebounceDelay(sync_interval, now, last_broadcast_publish)
     IN IF delay > 0
        THEN /\ bpc' = [bpc EXCEPT ![t] = "sleep"]
             /\ bwake' = [bwake EXCEPT ![t] = now + delay]
             /\ UNCHANGED <<groupvars, last_broadcast_publish, outbox, bhistvars>>
        ELSE /\ PublishBroadcastFrame(t)
             /\ UNCHANGED bwake
  /\ UNCHANGED <<cfgvars, cmdvars, purevars, framevars, wwake, heard, called_at, now, lifevars, workervars, queuevars, histvars, led_count, lights,
                 broadcast_pending>>

\* asyncio.sleep(delay) ends, the task publishes.
DebounceWake(t) ==
  /\ bpc[t] = "sleep"
  /\ now >= bwake[t]
  /\ PublishBroadcastFrame(t)
  /\ bwake' = [bwake EXCEPT ![t] = 0]
  /\ UNCHANGED <<cfgvars, cmdvars, purevars, framevars, wwake, heard, called_at, now, lifevars, workervars, queuevars, histvars, led_count, lights,
                 broadcast_pending>>

\* mqtt.async_publish returns: the timestamp is taken and the task ends.
PublishReturn(t) ==
  /\ bpc[t] = "publish"
  /\ last_broadcast_publish' = PublishedAt(last_broadcast_publish, now)
  /\ TaskEnds(t)
  /\ burst' = NoteReturnedPublish(burst)
  /\ UNCHANGED <<cfgvars, cmdvars, purevars, framevars, wwake, heard, called_at, now, lifevars, workervars, queuevars, groupvars, histvars,
                 led_count, lights, broadcast_pending, bwake, outbox, dirty, pub_at>>

\* mqtt.async_publish raises: the exception leaves the task before the
\* timestamp is taken.
PublishFail(t) ==
  /\ bpc[t] = "publish"
  /\ TaskEnds(t)
  /\ dirty' = TRUE
  /\ UNCHANGED <<cfgvars, cmdvars, purevars, framevars, wwake, heard, called_at, now, lifevars, workervars, queuevars, groupvars, histvars,
                 led_count, lights, broadcast_pending, bwake, last_broadcast_publish, outbox, pub_at,
                 burst>>

\* time.monotonic() advances.
Tick ==
  /\ now < MaxTime
  /\ now' = now + 1
  /\ UNCHANGED <<cfgvars, cmdvars, purevars, framevars, wwake, heard, called_at, lifevars, workervars, queuevars, groupvars, histvars, bcastvars,
                 bhistvars>>

\* ------------------------------------------------------- colour commands
\* async_publish_colour(rgb, brightness), called by the light entity
\* (light.py:67), which exists while the coordinator runs, up to the
\* suspension in mqtt.async_publish: the payload goes to the command topic,
\* which may be the topic of the outbound frames.  Nothing in it tests for a
\* call in progress: calls overlap.
AsyncPublishColour(rgb, brightness) ==
  /\ phase = "running"
  /\ Len(colour_calls) < MaxColourCalls
  /\ LET rgb_tuple == <<Clamp255(rgb[1]), Clamp255(rgb[2]), Clamp255(rgb[3])>>
         level == IF brightness = None
                  THEN None
                  ELSE Some(BrightnessFromHa(brightness[1], DEFAULT_BRIGHTNESS_LEVELS))
         payload == ColourPayload(rgb_tuple, level)
     IN /\ colour_calls' = Append(colour_calls, <<rgb_tuple, level>>)
        /\ command_out' = Some(<<command_topic, payload>>)
        /\ outbox' = IF command_topic = led_out_topic THEN Some(payload) ELSE outbox
  /\ UNCHANGED <<cfgvars, purevars, framevars, wwake, heard, called_at, now, lifevars, workervars, queuevars, groupvars, histvars,
                 led_count, lights, broadcast_pending, bpc, bwake, last_broadcast_publish,
                 bhistvars, rgb_command, brightness_level>>

\* async_turn_off, called by the light entity (light.py:70)
AsyncTurnOff == AsyncPublishColour(<<0, 0, 0>>, None)

\* A sequence without its i-th element.
Without(seq, i) == SubSeq(seq, 1, i - 1) \o SubSeq(seq, i + 1, Len(seq))

\* mqtt.async_publish returns to the i-th suspended call of
\* async_publish_colour, in any order among the calls: the colour and the
\* level of that call are kept (and the command signal is sent).
AsyncPublishColourReturn(i) ==
  /\ i \in 1 .. Len(colour_calls)
  /\ rgb_command' = Some(colour_calls[i][1])
  /\ brightness_level' = colour_calls[i][2]
  /\ colour_calls' = Without(colour_calls, i)
  /\ UNCHANGED <<cfgvars, purevars, framevars, wwake, heard, called_at, now, lifevars, workervars, queuevars, groupvars, histvars,
                 bcastvars, bhistvars, command_out>>

\* mqtt.async_publish raises in the i-th suspended call of
\* async_publish_colour: the fields stay.
AsyncPublishColourFail(i) ==
  /\ i \in 1 .. Len(colour_calls)
  /\ colour_calls' = Without(colour_calls, i)
  /\ UNCHANGED <<cfgvars, purevars, framevars, wwake, heard, called_at, now, lifevars, workervars, queuevars, groupvars, histvars,
                 bcastvars, bhistvars, rgb_command, brightness_level, command_out>>

\* ------------------------------------------------------- frame handler
\* _async_handle_frame(msg), whole: it has no await that suspends (the lock of
\* _queue_light_service is never held across a suspension), so a frame is
\* handled in one step.  When _process_listen_groups raises, the frame is
\* stored, the state signal sent and the calls made before are queued, and no
\* groups signal follows.
HandleFrame(payload) ==
  /\ ActiveSubs(frame_subs) # {}
  /\ IF ~Accepted(payload)
     THEN /\ heard' = [NoFrameHeard EXCEPT !.n = 1 - heard.n, !.payload = payload]
          /\ UNCHANGED <<framevars, led_count, workervars, queuevars, groupvars, histvars>>
     ELSE LET state == FrameState(payload)
              rgb_frame == [k \in 1 .. Len(state.colours) |-> HexToRgb(state.colours[k])]
          IN /\ frame' = Some(state)
             /\ led_count' = Len(state.colours)
             /\ IF mode # MODE_LISTEN \/ groups = <<>>
                THEN /\ heard' = [NoFrameHeard EXCEPT !.n = 1 - heard.n, !.payload = payload,
                                                     !.accepted = TRUE, !.state_signal = TRUE]
                     /\ UNCHANGED <<last_listen_update, workervars, queuevars, groupvars,
                                    histvars>>
                ELSE \E choice \in RandomChoices :
                       \E acc \in {ProcessListenGroups(
                                     [rgbs |-> group_rgb, brs |-> group_brightness,
                                      last |-> last_listen_update, throttled |-> {},
                                      calls |-> <<>>, raised |-> FALSE],
                                     0, rgb_frame, calibration, sync_interval, now, choice)} :
                          /\ group_rgb' = acc.rgbs
                          /\ group_brightness' = acc.brs
                          /\ last_listen_update' = acc.last
                          /\ Enqueue(CallCommands(acc.calls))
                          /\ last_groups_signal' =
                               IF acc.raised THEN last_groups_signal
                               ELSE DispatchGroupsSignal(last_groups_signal, now, FALSE)
                          /\ heard' = [n |-> 1 - heard.n, throttled |-> acc.throttled,
                                       calls |-> acc.calls, raised |-> acc.raised,
                                       payload |-> payload,
                                       accepted |-> TRUE, state_signal |-> TRUE,
                                       groups_signal |->
                                         /\ ~acc.raised
                                         /\ GroupsSignalDue(last_groups_signal, now, FALSE)]
                          /\ UNCHANGED <<witem, awaited, holding>>
  /\ UNCHANGED <<cfgvars, cmdvars, purevars, now, lifevars, wwake, called_at, lights, broadcast_pending, bpc,
                 bwake, last_broadcast_publish, outbox, bhistvars>>

\* ------------------------------------------------------------------ Spec
Next ==
  \/ AsyncSetup
  \/ AsyncUnloadCancel
  \/ AsyncUnloadFinish
  \/ AsyncUnloadIdle
  \/ \E g \in InputGroupIndexes, c \in InputColours, b \in InputBrightness :
       AsyncSetGroupColour(g, c, b)
  \/ \E g \in InputGroupIndexes : AsyncTurnOffGroup(g)
  \/ \E w \in WorkerIds : WorkerDrain(w)
  \/ \E w \in WorkerIds : WorkerCallReturn(w)
  \/ \E w \in WorkerIds : WorkerCallFail(w)
  \/ \E w \in WorkerIds : WorkerWake(w)
  \/ \E w \in WorkerIds : WorkerCancelled(w)

Spec == Init /\ [][Next]_vars

\* The same with outbound calls that always return, and with every task the
\* event loop has made runnable eventually run.
NextReturning ==
  \/ AsyncSetup
  \/ AsyncUnloadCancel
  \/ AsyncUnloadFinish
  \/ AsyncUnloadIdle
  \/ \E g \in InputGroupIndexes, c \in InputColours, b \in InputBrightness :
       AsyncSetGroupColour(g, c, b)
  \/ \E g \in InputGroupIndexes : AsyncTurnOffGroup(g)
  \/ \E w \in WorkerIds : WorkerDrain(w)
  \/ \E w \in WorkerIds : WorkerCallReturn(w)
  \/ \E w \in WorkerIds : WorkerWake(w)
  \/ \E w \in WorkerIds : WorkerCancelled(w)

WorkerFairness ==
  /\ \A w \in WorkerIds : WF_vars(WorkerDrain(w))
  /\ \A w \in WorkerIds : WF_vars(WorkerCallReturn(w))
  /\ \A w \in WorkerIds : WF_vars(WorkerWake(w))
  /\ \A w \in WorkerIds : WF_vars(WorkerCancelled(w))
  /\ WF_vars(AsyncUnloadFinish)

LiveSpec == Init /\ [][NextReturning]_vars /\ WorkerFairness

\* Outbound calls may raise, and every task the event loop has made runnable
\* eventually runs; a call in progress eventually returns or raises.
CallFairness ==
  /\ \A w \in WorkerIds : WF_vars(WorkerDrain(w))
  /\ \A w \in WorkerIds : WF_vars(WorkerCallReturn(w) \/ WorkerCallFail(w))
  /\ \A w \in WorkerIds : WF_vars(WorkerWake(w))
  /\ \A w \in WorkerIds : WF_vars(WorkerCancelled(w))
  /\ WF_vars(AsyncUnloadFinish)

LiveFailSpec == Init /\ [][Next]_vars /\ CallFairness

\* Broadcast mode: the lights change, the clock advances, the debounce tasks
\* run; no group command is given.
NextBroadcast ==
  \/ AsyncSetup
  \/ AsyncUnloadIdle
  \/ \E e \in Entities, state \in LightStates : LightStateChange(e, state)
  \/ \E t \in TaskIds : DebounceStart(t)
  \/ \E t \in TaskIds : DebounceWake(t)
  \/ \E t \in TaskIds : PublishReturn(t)
  \/ Tick
  \/ \E t \in TaskIds : PublishFail(t)

SpecBroadcast == InitBroadcast /\ [][NextBroadcast]_vars

\* Broadcast mode with a sync interval of one tick or more, started at any
\* clock reading: light "b" changes between two colours and an rgb_color of
\* None with a brightness, which makes the read of the lights raise; a publish
\* returns or raises.
InitBurst ==
  /\ mode = MODE_BROADCAST
  /\ sync_interval \in 1 .. MaxInterval
  /\ command_spacing = 0
  /\ led_out_topic = DEFAULT_LED_OUT_TOPIC
  /\ command_topic = DEFAULT_COMMAND_TOPIC
  /\ groups = Groups
  /\ calibration = NoCutoffs
  /\ now = 0
  /\ InitCommon

NextBurst ==
  \/ AsyncSetup
  \/ \E state \in LightStates \cup {NullRgbLightState(Some(128))} :
       LightStateChange("b", state)
  \/ \E t \in TaskIds : DebounceStart(t)
  \/ \E t \in TaskIds : DebounceWake(t)
  \/ \E t \in TaskIds : PublishReturn(t)
  \/ Tick
  \/ \E t \in TaskIds : PublishFail(t)

SpecBurst == InitBurst /\ [][NextBurst]_vars

\* The clock as the frame handler reads it (time.monotonic() in
\* _process_listen_groups): with sync_interval <= 0 no comparison of the handler
\* depends on the reading, so the clock is only advanced when it is positive.
ThrottleTick == sync_interval > 0 /\ Tick

\* Frames arrive on the inbound topic, the clock advances, the worker sends.
NextFrames ==
  \/ AsyncSetup
  \/ AsyncUnloadCancel
  \/ AsyncUnloadFinish
  \/ AsyncUnloadIdle
  \/ \E payload \in InputPayloads : HandleFrame(payload)
  \/ \E w \in WorkerIds : WorkerDrain(w)
  \/ \E w \in WorkerIds : WorkerCallReturn(w)
  \/ \E w \in WorkerIds : WorkerCancelled(w)
  \/ ThrottleTick

SpecFrames == InitFrames /\ [][NextFrames]_vars

\* Broadcast mode with the inbound topic subscribed: a frame arrives, the
\* lights change, and the coordinator is stopped while a debounce task is
\* alive.  No group command is given, so there is no worker to await and
\* async_unload does not suspend.
InitStop ==
  /\ mode = MODE_BROADCAST
  /\ sync_interval \in {0, MaxInterval}
  /\ command_spacing = 0
  /\ led_out_topic = DEFAULT_LED_OUT_TOPIC
  /\ command_topic = DEFAULT_COMMAND_TOPIC
  /\ groups = Groups
  /\ calibration = NoCutoffs
  /\ now = 0
  /\ InitCommon

NextStop ==
  \/ AsyncSetup
  \/ AsyncUnloadIdle
  \/ HandleFrame(BrightLed \o DimLed)
  \/ \E e \in Entities, state \in LightStates : LightStateChange(e, state)
  \/ \E t \in TaskIds : DebounceStart(t)
  \/ \E t \in TaskIds : DebounceWake(t)
  \/ \E t \in TaskIds : PublishReturn(t)
  \/ ThrottleTick
  \/ \E t \in TaskIds : PublishFail(t)

SpecStop == InitStop /\ [][NextStop]_vars

\* Either mode without throttling, the lights in any state at construction:
\* the group states as the frame handler and the reader of the lights set them.
InitMissing ==
  /\ mode \in {MODE_LISTEN, MODE_BROADCAST}
  /\ sync_interval = 0
  /\ command_spacing = 0
  /\ led_out_topic = DEFAULT_LED_OUT_TOPIC
  /\ command_topic = DEFAULT_COMMAND_TOPIC
  /\ groups = Groups
  /\ calibration = NoCutoffs
  /\ now = 0
  /\ InitFields
  /\ lights \in [Entities -> {NoState} \cup LightStates \cup OtherLightStates]

NextMissing ==
  \/ AsyncSetup
  \/ AsyncUnloadIdle
  \/ \E payload \in InputPayloads : HandleFrame(payload)
  \/ \E w \in WorkerIds : WorkerDrain(w)
  \/ \E w \in WorkerIds : WorkerCallReturn(w)
  \/ \E e \in Entities, state \in LightStates \cup OtherLightStates : LightStateChange(e, state)
  \/ \E t \in TaskIds : DebounceStart(t)
  \/ \E t \in TaskIds : PublishReturn(t)
  \/ \E t \in TaskIds : PublishFail(t)

SpecMissing == InitMissing /\ [][NextMissing]_vars

\* Either mode, the group list validated from any configured list at
\* construction: frames arrive, groups are turned off, light "b" changes,
\* frames are published and the worker sends.
RawEntities == {"a", "b", "c"}

InitGroups ==
  /\ mode \in {MODE_LISTEN, MODE_BROADCAST}
  /\ sync_interval = 0
  /\ command_spacing = 0
  /\ led_out_topic = DEFAULT_LED_OUT_TOPIC
  /\ command_topic = DEFAULT_COMMAND_TOPIC
  /\ args \in [fn : {"normalise_groups"}, raw : RawConfigs]
  /\ groups = NormaliseGroups(args.raw)
  /\ result = None
  /\ calibration = NoCutoffs
  /\ now = 0
  /\ InitCoordinator
  /\ lights = [e \in RawEntities |-> LightState(Some(<<0, 0, 255>>), None)]

NextGroups ==
  \/ AsyncSetup
  \/ HandleFrame(DimLed \o BrightLed \o DimLed)
  \/ \E g \in 0 .. MaxRawGroups - 1 : AsyncTurnOffGroup(g)
  \/ \E w \in WorkerIds : WorkerDrain(w)
  \/ \E w \in WorkerIds : WorkerCallReturn(w)
  \/ LightStateChange("b", LightState(Some(<<255, 0, 0>>), Some(128)))
  \/ \E t \in TaskIds : DebounceStart(t)
  \/ \E t \in TaskIds : PublishReturn(t)
  \/ \E t \in TaskIds : PublishFail(t)

SpecGroups == InitGroups /\ [][NextGroups]_vars

\* Either mode without throttling: the group states as every writer sets them,
\* from frames, from lights that report a colour outside 0..255 or none, and
\* from direct commands with a colour and a brightness outside 0..255.
WideColour == <<300, -5, 10>>
WideLightStates ==
  {LightState(Some(WideColour), None), LightState(Some(<<255, 0, 0>>), Some(128))}

InitStates ==
  /\ mode \in {MODE_LISTEN, MODE_BROADCAST}
  /\ sync_interval = 0
  /\ command_spacing = 0
  /\ led_out_topic = DEFAULT_LED_OUT_TOPIC
  /\ command_topic = DEFAULT_COMMAND_TOPIC
  /\ groups = Groups
  /\ calibration = NoCutoffs
  /\ now = 0
  /\ InitCommon

NextStates ==
  \/ AsyncSetup
  \/ AsyncUnloadIdle
  \/ HandleFrame(DimLed \o BrightLed \o DimLed)
  \/ \E b \in {None, Some(300)} : AsyncSetGroupColour(0, WideColour, b)
  \/ AsyncTurnOffGroup(1)
  \/ \E state \in WideLightStates : LightStateChange("b", state)
  \/ \E t \in TaskIds : DebounceStart(t)
  \/ \E t \in TaskIds : PublishReturn(t)
  \/ \E t \in TaskIds : PublishFail(t)
  \/ \E w \in WorkerIds : WorkerDrain(w)
  \/ \E w \in WorkerIds : WorkerCallReturn(w)

SpecStates == InitStates /\ [][NextStates]_vars

\* Either mode: the coordinator is started and stopped again and again, the
\* start suspended in its subscribe or not, while light "b" changes, frames are published, a frame
\* arrives on the inbound topic and the worker sends.
InitLifecycle ==
  /\ mode \in {MODE_LISTEN, MODE_BROADCAST}
  /\ sync_interval = 0
  /\ command_spacing = 0
  /\ led_out_topic = DEFAULT_LED_OUT_TOPIC
  /\ command_topic = DEFAULT_COMMAND_TOPIC
  /\ groups = Groups
  /\ calibration = NoCutoffs
  /\ now = 0
  /\ InitCommon

\* What happens between the calls of async_setup and async_unload.
LifecycleEvents ==
  \/ \E state \in LightStates : LightStateChange("b", state)
  \/ \E t \in TaskIds : DebounceStart(t)
  \/ \E t \in TaskIds : PublishReturn(t)
  \/ \E t \in TaskIds : PublishFail(t)
  \/ HandleFrame(BrightLed \o DimLed)
  \/ \E w \in WorkerIds : WorkerDrain(w)
  \/ \E w \in WorkerIds : WorkerCallReturn(w)
  \/ \E w \in WorkerIds : WorkerCancelled(w)

\* No async_setup call is suspended.
SetupReturned == SetupsWaiting = 0

\* async_setup and async_unload called one after another, as their caller
\* makes them (__init__.py:26 and 40 await each call): a call is made once
\* the call before has returned, whether or not it was suspended on the way.
NextLifecycle ==
  \/ SetupReturned /\ AsyncSetup
  \/ SetupReturned /\ AsyncSetupAgain
  \/ SetupReturned /\ AsyncSetupSuspend
  \/ AsyncSetupResume(FALSE)
  \/ SetupReturned /\ AsyncUnloadIdle
  \/ SetupReturned /\ AsyncUnloadAgain
  \/ SetupReturned /\ AsyncUnloadCancel
  \/ AsyncUnloadFinish
  \/ LifecycleEvents

SpecLifecycle == InitLifecycle /\ [][NextLifecycle]_vars

\* The same calls made without waiting for the call before: an async_setup
\* call suspended in mqtt.async_subscribe is overlapped by further
\* async_setup calls and by async_unload.
NextOverlap ==
  \/ AsyncSetup
  \/ AsyncSetupAgain
  \/ AsyncSetupSuspend
  \/ \E overtaken \in BOOLEAN : AsyncSetupResume(overtaken)
  \/ AsyncUnloadIdle
  \/ AsyncUnloadAgain
  \/ AsyncUnloadCancel
  \/ AsyncUnloadFinish
  \/ LifecycleEvents

SpecOverlap == InitLifecycle /\ [][NextOverlap]_vars

\* Either mode, with and without a sync interval: the coordinator is started
\* at any clock reading, lights change (before the start as well, light "b"
\* also to an rgb_color of None with a brightness), a frame arrives, the
\* worker sends and the coordinator is stopped.
InitSync ==
  /\ mode \in {MODE_LISTEN, MODE_BROADCAST}
  /\ sync_interval \in {0, MaxInterval}
  /\ command_spacing = 0
  /\ led_out_topic = DEFAULT_LED_OUT_TOPIC
  /\ command_topic = DEFAULT_COMMAND_TOPIC
  /\ groups = Groups
  /\ calibration = NoCutoffs
  /\ now = 0
  /\ InitCommon

NextSync ==
  \/ AsyncSetup
  \/ AsyncUnloadIdle
  \/ AsyncUnloadCancel
  \/ AsyncUnloadFinish
  \/ \E w \in WorkerIds : WorkerCancelled(w)
  \/ HandleFrame(BrightLed \o DimLed)
  \/ \E e \in Entities, state \in LightStates : LightStateChange(e, state)
  \/ LightStateChange("b", NullRgbLightState(Some(128)))
  \/ \E t \in TaskIds : DebounceStart(t)
  \/ \E t \in TaskIds : DebounceWake(t)
  \/ \E t \in TaskIds : PublishReturn(t)
  \/ ThrottleTick
  \/ \E t \in TaskIds : PublishFail(t)
  \/ \E w \in WorkerIds : WorkerDrain(w)
  \/ \E w \in WorkerIds : WorkerCallReturn(w)
  \/ \E w \in WorkerIds : WorkerCallFail(w)

SpecSync == InitSync /\ [][NextSync]_vars

\* Broadcast mode without a sync interval, any of the three group lists:
\* lights change, before the start as well, light "a" also to an rgb_color
\* with channels above 255 and light "b" to an rgb_color of None with a
\* brightness, frames of one and of two LEDs set the LED count, and frames are
\* built and published.
InitPaint ==
  /\ mode = MODE_BROADCAST
  /\ sync_interval = 0
  /\ command_spacing = 0
  /\ led_out_topic = DEFAULT_LED_OUT_TOPIC
  /\ command_topic = DEFAULT_COMMAND_TOPIC
  /\ groups \in {Groups, PairedGroups, MixedGroups}
  /\ calibration = NoCutoffs
  /\ now = 0
  /\ InitFields
  /\ lights \in [EntitiesOf(groups) -> {NoState}]

NextPaint ==
  \/ AsyncSetup
  \/ AsyncUnloadIdle
  \/ \E payload \in {BrightLed, BrightLed \o DimLed} : HandleFrame(payload)
  \/ \E e \in EntitiesOf(groups) : \E state \in PaintLightStates(e) :
       LightStateChange(e, state)
  \/ LightStateChange("b", NullRgbLightState(Some(128)))
  \/ \E t \in TaskIds : DebounceStart(t)
  \/ \E t \in TaskIds : PublishReturn(t)
  \/ \E t \in TaskIds : PublishFail(t)

SpecPaint == InitPaint /\ [][NextPaint]_vars

\* Broadcast mode without a sync interval, the command topic set to its
\* default or to the topic of the outbound frames: light "a" changes, also to
\* an rgb_color with channels above 255, a frame of one LED sets the LED
\* count, frames are published and the light entity publishes colours.
InitOutbound ==
  /\ mode = MODE_BROADCAST
  /\ sync_interval = 0
  /\ command_spacing = 0
  /\ led_out_topic = DEFAULT_LED_OUT_TOPIC
  /\ command_topic \in {DEFAULT_COMMAND_TOPIC, DEFAULT_LED_OUT_TOPIC}
  /\ groups = Groups
  /\ calibration = NoCutoffs
  /\ now = 0
  /\ InitCommon

NextOutbound ==
  \/ AsyncSetup
  \/ AsyncUnloadIdle
  \/ HandleFrame(BrightLed)
  \/ \E state \in PaintLightStates("a") : LightStateChange("a", state)
  \/ \E t \in TaskIds : DebounceStart(t)
  \/ \E t \in TaskIds : PublishReturn(t)
  \/ \E t \in TaskIds : PublishFail(t)
  \/ \E rgb \in {<<255, 0, 0>>, WideColour}, brightness \in {None, Some(128)} :
       AsyncPublishColour(rgb, brightness)
  \/ AsyncTurnOff
  \/ \E i \in 1 .. MaxColourCalls : AsyncPublishColourReturn(i)
  \/ \E i \in 1 .. MaxColourCalls : AsyncPublishColourFail(i)

SpecOutbound == InitOutbound /\ [][NextOutbound]_vars

\* Either mode, with and without a sync interval: the coordinator is started
\* at any clock reading, a frame arrives, a group is turned off, one light
\* changes, frames are published and the worker sends.  The coordinator is
\* not stopped.
NextSignal ==
  \/ AsyncSetup
  \/ HandleFrame(BrightLed \o DimLed)
  \/ AsyncTurnOffGroup(0)
  \/ LightStateChange("a", LightState(Some(<<255, 0, 0>>), Some(128)))
  \/ \E t \in TaskIds : DebounceStart(t)
  \/ \E t \in TaskIds : DebounceWake(t)
  \/ \E t \in TaskIds : PublishReturn(t)
  \/ ThrottleTick
  \/ \E t \in TaskIds : PublishFail(t)
  \/ \E w \in WorkerIds : WorkerDrain(w)
  \/ \E w \in WorkerIds : WorkerCallReturn(w)

SpecSignal == InitSync /\ [][NextSignal]_vars

\* _aggregate_colour(colours, strategy) called on its own.
AggregateColourCall ==
  /\ args.fn = "aggregate_colour"
  /\ result = None
  /\ \E choice \in 1 .. Max2(1, Len(args.colours)) :
       result' = Some(AggregateColour(args.colours, args.strategy, choice))
  /\ UNCHANGED <<cfgvars, cmdvars, args, now, lifevars, workervars, queuevars, groupvars, histvars,
                 bcastvars, bhistvars, framevars, wwake, heard, called_at>>

\* apply_calibration(rgb) called on its own, with the cutoffs of the call's
\* settings (temperature_shift = 0, both gains = 1).
ApplyCalibrationCall ==
  /\ args.fn = "apply_calibration"
  /\ result = None
  /\ result' = Some(ApplyCalibration(args.rgb, args.cal))
  /\ UNCHANGED <<cfgvars, cmdvars, args, now, lifevars, workervars, queuevars, groupvars, histvars,
                 bcastvars, bhistvars, framevars, wwake, heard, called_at>>

\* The decoding loop of _async_handle_frame on a buffer; the colours it gives
\* go on to _publish_frame_bytes.
DecodeFrameCall ==
  /\ args.fn = "decode_frame"
  /\ args' = [fn |-> "publish_frame_bytes", buf |-> args.buf,
              frame |-> DecodeColours(args.buf)]
  /\ UNCHANGED <<cfgvars, cmdvars, result, now, lifevars, workervars, queuevars, groupvars, histvars,
                 bcastvars, bhistvars, framevars, wwake, heard, called_at>>

\* _publish_frame_bytes(frame) up to the publish: the payload it builds.
PublishFrameBytesCall ==
  /\ args.fn = "publish_frame_bytes"
  /\ result = None
  /\ result' = Some(FramePayload(args.frame))
  /\ UNCHANGED <<cfgvars, cmdvars, args, now, lifevars, workervars, queuevars, groupvars, histvars,
                 bcastvars, bhistvars, framevars, wwake, heard, called_at>>

\* _hex_to_rgb(colour); the colour it gives goes on to be formatted.
HexToRgbCall ==
  /\ args.fn = "hex_to_rgb"
  /\ args' = [fn |-> "format_colour", rgb |-> HexToRgb(args.colour), colour |-> args.colour]
  /\ UNCHANGED <<cfgvars, cmdvars, result, now, lifevars, workervars, queuevars, groupvars, histvars,
                 bcastvars, bhistvars, framevars, wwake, heard, called_at>>

\* "%02x%02x%02x" % colour, as _build_frame_from_groups formats a colour.
FormatColourCall ==
  /\ args.fn = "format_colour"
  /\ result = None
  /\ result' = Some(HexColour(args.rgb))
  /\ UNCHANGED <<cfgvars, cmdvars, args, now, lifevars, workervars, queuevars, groupvars, histvars,
                 bcastvars, bhistvars, framevars, wwake, heard, called_at>>

\* Calibrated colours handed to _call_light_intensity: every channel dark,
\* faint, about half or full.
IntensityChannels == {0, 1, 127, 128, 255}
IntensityColours == [1 .. 3 -> IntensityChannels]
IntensityArgs == [fn : {"call_light_intensity"}, entity_id : {"a"}, colour : IntensityColours]

\* _call_light_intensity(entity_id, colour) called on its own: the command is
\* handed to _queue_light_service.
CallLightIntensityCall ==
  /\ args.fn = "call_light_intensity"
  /\ result = None
  /\ Enqueue(<<CallLightIntensityCommand(args.entity_id, args.colour, DEFAULT_TRANSITION)>>)
  /\ result' = Some(TRUE)
  /\ UNCHANGED <<cfgvars, cmdvars, args, now, lifevars, witem, awaited, holding, groupvars,
                 bcastvars, bhistvars, framevars, wwake, heard, called_at>>

\* The colour arithmetic called on its own, on a coordinator as constructed.
InitColour ==
  /\ mode = MODE_LISTEN
  /\ sync_interval = 0
  /\ command_spacing = 0
  /\ led_out_topic = DEFAULT_LED_OUT_TOPIC
  /\ command_topic = DEFAULT_COMMAND_TOPIC
  /\ groups = Groups
  /\ calibration = NoCutoffs
  /\ now = 0
  /\ InitCoordinator
  /\ lights = [e \in EntitiesOf(groups) |-> NoState]
  /\ args \in AggregateArgs \cup CalibrationArgs \cup FrameArgs \cup HexArgs
               \cup IntensityArgs
  /\ result = None

NextColour ==
  \/ AggregateColourCall
  \/ ApplyCalibrationCall
  \/ DecodeFrameCall
  \/ PublishFrameBytesCall
  \/ HexToRgbCall
  \/ FormatColourCall
  \/ CallLightIntensityCall

SpecColour == InitColour /\ [][NextColour]_vars

\* Listen mode with a spacing of no or four ticks: lights are turned off group
\* by group, the worker sends, sleeps to its deadline, or its call fails.
InitSpacing ==
  /\ mode = MODE_LISTEN
  /\ sync_interval = 0
  /\ command_spacing \in {0, SpacingTicks}
  /\ led_out_topic = DEFAULT_LED_OUT_TOPIC
  /\ command_topic = DEFAULT_COMMAND_TOPIC
  /\ groups = Groups
  /\ calibration = NoCutoffs
  /\ now = 0
  /\ InitCommon

NextSpacing ==
  \/ AsyncSetup
  \/ \E g \in GroupIndexes : AsyncTurnOffGroup(g)
  \/ \E w \in WorkerIds : WorkerDrain(w)
  \/ \E w \in WorkerIds : WorkerCallReturn(w)
  \/ \E w \in WorkerIds : WorkerCallFail(w)
  \/ \E w \in WorkerIds : WorkerWakeOnTime(w)
  \/ SpacingTick

SpecSpacing == InitSpacing /\ [][NextSpacing]_vars

\* ------------------------------------------------------------ properties
\* The workers that issue an outbound call in this step.
CallsIssued == {w \in WorkerIds : wpc[w] # "call" /\ wpc'[w] = "call"}

\* async_unload's flush happens in this step.
Flushed == phase # "stopped" /\ phase' = "stopped"

\* The head of the queue is taken by a worker in this step.
Drained(t) ==
  /\ command_queue # <<>>
  /\ Head(command_queue) = t
  /\ command_queue' = Tail(command_queue)
  /\ ~Flushed

QueueSet == {command_queue[i] : i \in 1 .. Len(command_queue)}

BookkeepingConsistent ==
  /\ QueueSet = queued_entities
  /\ Cardinality(queued_entities) = Len(command_queue)
  /\ DOMAIN pending_light_commands = queued_entities

\* C1: every identifier a worker takes from the queue produces exactly one
\* outbound call, and the call carries the last command enqueued for that
\* target before the drain (the command pending at drain time); no call is
\* issued without a drain.  Two enqueues for a target before its drain thus give
\* one call with the second command.
C1_LastWriteWins ==
  [][/\ \A t \in Entities :
          Drained(t) =>
            \E w \in WorkerIds :
              /\ CallsIssued = {w}
              /\ t \in DOMAIN owed
              /\ witem'[w] = owed[t]
              /\ t \notin DOMAIN pending_light_commands'
     /\ CallsIssued # {} => \E t \in Entities : Drained(t)]_vars

\* A call is in flight that carries a command which replaced an earlier,
\* different command enqueued for the same target before the drain.
C1_Witness ==
  \E w \in WorkerIds :
    /\ wpc[w] = "call"
    /\ w \in coalesced
    /\ witem[w].service = "turn_on"

\* C2: a target that has been enqueued and not yet serviced is eventually
\* serviced (an outbound call for it is issued), unless shutdown begins first;
\* outbound calls return and runnable tasks run (LiveSpec).
C2_EventuallyServiced ==
  \A t \in Entities :
    (t \in DOMAIN owed) ~> (t \notin DOMAIN owed \/ phase # "running")

\* A worker is sending the command of a target while another target waits.
C2_Witness ==
  /\ phase = "running"
  /\ \E w \in WorkerIds : wpc[w] = "call" /\ witem[w].entity_id = "b"
  /\ "a" \in DOMAIN owed

\* C3: while the coordinator runs, queued targets always have a live worker
\* that will service them without a new enqueue, also after an outbound call
\* has raised; and the queue, the pending map and the queued set agree.
C3_FailureNotFatal ==
  /\ BookkeepingConsistent
  /\ (phase = "running" /\ command_queue # <<>>) => WorkerAlive(Dispatcher)

\* C4: from the cancel() of async_unload until it returns no outbound call is
\* issued, and when it returns the queue, the pending map and the queued set
\* are empty and no worker task is alive.
C4_ShutdownDiscards ==
  [][/\ phase = "unloading" => CallsIssued = {}
     /\ Flushed =>
          /\ command_queue' = <<>>
          /\ pending_light_commands' = EmptyDict
          /\ queued_entities' = {}
          /\ \A w \in WorkerIds : wpc'[w] \in {"none", "done"}]_vars

\* C5: once async_unload has completed nothing is enqueued, no outbound call
\* is issued and no worker is started.
C5_StoppedIsTerminal ==
  [][phase = "stopped" =>
       /\ UNCHANGED <<command_queue, queued_entities, pending_light_commands>>
       /\ CallsIssued = {}
       /\ \A w \in WorkerIds : wpc[w] \in {"none", "done"} => wpc'[w] = wpc[w]]_vars

\* C6: an outbound call is issued for a target only when no target that was
\* first enqueued before it is still waiting; replacing a waiting target's
\* command leaves its place (the order is that of the first enqueues).
C6_FifoOfFirstEnqueue ==
  [][\A w \in CallsIssued :
       \A a \in Entities : <<a, witem'[w].entity_id>> \notin before]_vars

\* The call in flight is for a target whose command was replaced while it
\* waited, and a target enqueued after it is still waiting.
C6_Witness ==
  \E w \in WorkerIds :
    /\ wpc[w] = "call"
    /\ w \in coalesced
    /\ command_queue # <<>>

\* ------------------------------------------------- broadcast properties
\* A light-state-change notification is delivered in this step.
Triggered == state_listener_unsub /\ lights' # lights

\* The debounce tasks that hand a frame to mqtt.async_publish in this step.
Published == {t \in TaskIds : bpc[t] # "publish" /\ bpc'[t] = "publish"}

\* Frames are published: broadcast mode, running, an outbound topic configured.
Publishing == phase = "running" /\ mode = MODE_BROADCAST /\ led_out_topic # ""

\* Ten triggers came within one sync_interval of the first, which found no
\* debounce task alive, and every task they started has ended.
BurstOver == Publishing /\ burst.n = TriggerBurst /\ AliveTasks(Broadcaster) = {}

\* C7: at any time at most one debounce task is alive (created and not yet
\* ended), and it is the one _broadcast_pending refers to; a light-state-change
\* notification that arrives while it is alive creates no task and changes no
\* task.
C7_SingleFlight ==
  [][/\ Cardinality(AliveTasks([pending |-> broadcast_pending', pc |-> bpc'])) <= 1
     /\ AliveTasks([pending |-> broadcast_pending', pc |-> bpc']) \subseteq {broadcast_pending'}
     /\ (Triggered /\ AliveTasks(Broadcaster) # {}) =>
          UNCHANGED <<broadcast_pending, bpc, bwake>>]_vars

\* Two or more notifications have arrived within one sync_interval while the
\* single task they share is still asleep.
C7_Witness ==
  /\ burst.n >= 2
  /\ burst.tasks = 1
  /\ \E t \in TaskIds : bpc[t] = "sleep" /\ AliveTasks(Broadcaster) = {t}

C8_RaisedWitness ==
  /\ BurstOver
  /\ burst.tasks = 3
  /\ burst.pubs = 2
  /\ burst.unread
  /\ burst.taken = 1

\* C9: while frames are published, a notification that no published frame
\* reflects always has a debounce task that has yet to read the light states
\* (one created and not started, or asleep); otherwise the change stays
\* unpublished until some other light changes.
C9_NoChangeLeftUnpublished ==
  (Publishing /\ dirty) => \E t \in TaskIds : bpc[t] \in {"ready", "sleep"}

\* C10: a debounce task hands a frame to mqtt.async_publish only when at least
\* sync_interval has elapsed since the last publish that returned, and so
\* since the publish before it when that one has returned; the return of a
\* publish sets _last_broadcast_publish to the clock reading, which is not
\* before that publish.  A publish that raises sets no time stamp and is not
\* counted.
C10_RateLimited ==
  [][/\ Published # {} =>
          /\ now >= last_broadcast_publish + sync_interval
          /\ (pub_at # None /\ last_broadcast_publish >= pub_at[1]) =>
               now >= pub_at[1] + sync_interval
     /\ \A t \in TaskIds :
          PublishReturn(t) =>
            /\ last_broadcast_publish' = now
            /\ pub_at # None /\ last_broadcast_publish' >= pub_at[1]]_vars

\* A frame is being published exactly one sync_interval after the return of
\* the previous publish.
C10_Witness ==
  /\ sync_interval > 0
  /\ last_broadcast_publish > 0
  /\ pub_at = Some(now)
  /\ now = last_broadcast_publish + sync_interval
  /\ \E t \in TaskIds : bpc[t] = "publish"

\* C11: a delivered payload whose length is not a multiple of 3 is dropped:
\* the step that handles it leaves the stored frame, the LED count, the group
\* states, the queue and the pending commands, the throttle timestamps and
\* the worker as they were, sends neither signal and queues no call.
C11_BadLengthDropped ==
  [][(heard' # heard /\ Len(heard'.payload) % 3 # 0) =>
       /\ UNCHANGED <<framevars, led_count, groupvars, queuevars, workervars, lifevars>>
       /\ ~heard'.accepted
       /\ ~heard'.state_signal
       /\ ~heard'.groups_signal
       /\ heard'.calls = <<>>]_vars

\* A two-byte payload has been delivered after a frame that queued commands.
C11_Witness ==
  /\ Len(heard.payload) = 2
  /\ frame # None
  /\ pending_light_commands # <<>>

\* C12: the step that handles a payload of 3N bytes (N > 0) stores a frame of
\* exactly the N colours of the payload, in order, sets the LED count to N and
\* sends the 'frame updated' signal.  In listen mode every configured group is
\* processed: its state is None exactly when none of its LEDs is in the frame.
\* In broadcast mode the step queues no light command and leaves every
\* group's state, and the throttle timestamps, as they were.
C12_FrameReplaced ==
  [][(heard' # heard /\ heard'.payload # <<>> /\ Len(heard'.payload) % 3 = 0) =>
       LET p == heard'.payload
           n == Len(p) \div 3
       IN /\ frame' # None
          /\ Len(frame'[1].colours) = n
          /\ frame'[1].payload_len = Len(p)
          /\ frame'[1].led_count = n
          /\ \A k \in 1 .. n :
               HexToRgb(frame'[1].colours[k]) = <<p[3 * k - 2], p[3 * k - 1], p[3 * k]>>
          /\ led_count' = n
          /\ heard'.state_signal
          /\ mode = MODE_LISTEN =>
               /\ Len(group_rgb') = Len(groups)
               /\ \A g \in 1 .. Len(groups) :
                    /\ group_rgb'[g] = None <=> MatchedLeds(groups[g], n) = <<>>
                    /\ group_brightness'[g] = None <=> MatchedLeds(groups[g], n) = <<>>
          /\ mode # MODE_LISTEN =>
               /\ UNCHANGED <<queuevars, workervars, group_rgb, group_brightness,
                              last_listen_update, last_groups_signal>>
               /\ heard'.calls = <<>>
               /\ ~heard'.groups_signal]_vars

\* In broadcast mode a frame of three LEDs has been stored.
C12_Witness ==
  /\ mode = MODE_BROADCAST
  /\ heard.accepted
  /\ frame # None
  /\ Len(frame[1].colours) = 3
  /\ frame[1].colours[1] # frame[1].colours[2]
  /\ command_queue = <<>>

\* This step is a whole run of the frame handler on an accepted payload in
\* listen mode.
FrameProcessed == heard' # heard /\ heard'.accepted /\ mode = MODE_LISTEN /\ groups # <<>>

\* After the step the stored frame is the payload's, and the group states are
\* what the payload alone gives, whatever they were before.
ReflectsPayload ==
  \E state \in {FrameState(heard'.payload)} :
    \E rgb_frame \in {[k \in 1 .. Len(state.colours) |-> HexToRgb(state.colours[k])]} :
      \E blank \in {[g \in 1 .. Len(groups) |-> None]} :
        \E alone \in {ProcessListenGroups(
                         [rgbs |-> blank, brs |-> blank, last |-> last_listen_update,
                          throttled |-> {}, calls |-> <<>>, raised |-> FALSE],
                         0, rgb_frame, calibration, sync_interval, now, 1)} :
          /\ frame' = Some(state)
          /\ group_rgb' = alone.rgbs
          /\ group_brightness' = alone.brs

\* The calls of the step's handler that address light e.
CallsFor(e) == {k \in 1 .. Len(heard'.calls) : heard'.calls[k].entity_id = e}

\* C13 as stated: a frame is handled in one piece, and afterwards the stored
\* frame, the group states and every pending command are those of that frame.
C13_ReflectsLatestFrame ==
  [][FrameProcessed =>
       /\ ReflectsPayload
       /\ \A e \in DOMAIN pending_light_commands' :
            \E k \in CallsFor(e) :
              pending_light_commands'[e] =
                CallLightIntensityCommand(e, heard'.calls[k].colour, DEFAULT_TRANSITION)]_vars

\* C13, amended: a frame is handled in one piece, after the frames before it;
\* afterwards the stored frame and the group states are those of that frame,
\* every light the frame commands has the frame's last command for it pending
\* and is queued, earlier targets keep their place in the queue, and a light
\* the frame does not command (its group throttled, or none of its LEDs in the
\* frame) keeps the pending command it had.
C13_LatestFrameWins ==
  [][FrameProcessed =>
       /\ ReflectsPayload
       /\ SubSeq(command_queue', 1, Len(command_queue)) = command_queue
       /\ \A e \in EntitiesOf(groups) :
            IF CallsFor(e) = {}
            THEN /\ e \in DOMAIN pending_light_commands' <=> e \in DOMAIN pending_light_commands
                 /\ e \in DOMAIN pending_light_commands =>
                      pending_light_commands'[e] = pending_light_commands[e]
            ELSE LET k == CHOOSE k \in CallsFor(e) : \A j \in CallsFor(e) : j <= k
                 IN /\ e \in DOMAIN pending_light_commands'
                    /\ pending_light_commands'[e] =
                         CallLightIntensityCommand(e, heard'.calls[k].colour,
                                                   DEFAULT_TRANSITION)
                    /\ e \in queued_entities'
                    /\ \E i \in 1 .. Len(command_queue') : command_queue'[i] = e]_vars

\* A later frame has replaced the command an earlier frame left pending for
\* light a, which only one group commands.
C13_Witness ==
  /\ groups = Groups
  /\ heard.accepted
  /\ \E k \in 1 .. Len(heard.calls) : heard.calls[k].entity_id = "a"
  /\ "a" \in overwritten
  /\ "a" \in DOMAIN pending_light_commands

\* A debounce task that has yet to finish.
TaskAlive(pc) == \E t \in TaskIds : pc[t] \in {"ready", "sleep", "publish"}

\* C14: the step in which async_unload runs unsubscribes from the frame topic
\* and from the light states and cancels the debounce task, so that no task is
\* alive, nothing is published and the timestamp of the last publish stays;
\* when async_unload has ended the stored frame and both group lists are
\* gone.  From then on no task is created, nothing is published and the
\* timestamp does not change.
C14_StopCancelsAndDiscards ==
  [][/\ (phase = "running" /\ phase' # "running") =>
          /\ ~frame_unsub'
          /\ ~state_listener_unsub'
          /\ broadcast_pending' = 0
          /\ ~TaskAlive(bpc')
          /\ UNCHANGED <<outbox, last_broadcast_publish>>
     /\ (phase # "stopped" /\ phase' = "stopped") =>
          /\ frame' = None
          /\ group_rgb' = <<>>
          /\ group_brightness' = <<>>
     /\ phase \in {"unloading", "stopped"} =>
          /\ ~TaskAlive(bpc')
          /\ broadcast_pending' = 0
          /\ UNCHANGED <<outbox, last_broadcast_publish, frame, frame_unsub,
                         state_listener_unsub>>]_vars

\* The coordinator was stopped while its first debounce task was suspended in
\* the publish of a frame (with sync_interval > 0 a publish that returns sets
\* the timestamp to a later reading than 0), after an inbound frame had been
\* stored and a light has changed since.
C14_Witness ==
  /\ phase = "stopped"
  /\ sync_interval > 0
  /\ heard.accepted
  /\ frame = None
  /\ group_rgb = <<>>
  /\ outbox # None
  /\ last_broadcast_publish = 0
  /\ \A e \in Entities : lights[e] # NoState

\* Group g (counted from 1) has no LED index inside a frame of n LEDs.
OutsideFrame(g, n) ==
  \A i \in 1 .. Len(groups[g].led_indices) : groups[g].led_indices[i] >= n

\* The handler of this step made a call for group g (counted from 1).
Commanded(g) == \E k \in 1 .. Len(heard'.calls) : heard'.calls[k].group = g - 1

\* C15: when a frame is processed in listen mode, a group none of whose LED
\* indices is inside the frame gets the state None (colour and brightness) and
\* no call is made for it; the handler still completes, and every other group
\* gets a colour from the frame and, its throttle permitting, its calls.
C15_GroupOutsideFrame ==
  [][FrameProcessed =>
       LET n == Len(heard'.payload) \div 3
       IN \A g \in 1 .. Len(groups) :
            IF OutsideFrame(g, n)
            THEN /\ group_rgb'[g] = None
                 /\ group_brightness'[g] = None
                 /\ ~Commanded(g)
                 /\ last_listen_update'[g] = last_listen_update[g]
            ELSE /\ group_rgb'[g] # None
                 /\ group_brightness'[g] # None
                 /\ (g - 1) \notin heard'.throttled => Commanded(g)]_vars

\* A frame of one LED has been processed after a longer one: the first group,
\* on LEDs 1 and 2, has the state None while a command of the longer frame is
\* still pending for its light a, and the second group has a colour and a call.
C15_Witness ==
  /\ phase = "running"
  /\ groups = PairedGroups
  /\ heard.accepted
  /\ Len(heard.payload) = 3
  /\ group_rgb[1] = None
  /\ group_rgb[2] # None
  /\ "a" \in DOMAIN pending_light_commands
  /\ \E k \in 1 .. Len(heard.calls) : heard.calls[k].entity_id = "d"

\* This step reads the lights into the group states: async_setup in broadcast
\* mode, or a debounce task that gets past its checks.
GroupsRead ==
  /\ mode = MODE_BROADCAST
  /\ groups # <<>>
  /\ phase' = "running"
  /\ \/ phase = "constructed"
     \/ /\ led_out_topic # ""
        /\ \E t \in TaskIds : bpc[t] \in {"ready", "sleep"} /\ bpc'[t] \in {"publish", "done", "none"}

\* Light e has no resolvable colour: _get_entity_colour returns None, or raises.
Colourless(e) == GetEntityColour(lights[e]) \in {None, TypeError}

\* The lights of group g (counted from 1).
Members(g) == {groups[g].entities[i] : i \in 1 .. Len(groups[g].entities)}

\* C16: a group's state is None, not black and not another colour, after a
\* frame none of whose LEDs is one of the group's, and after a reading of the
\* lights in which none of the group's lights has a resolvable colour.
C16_NothingLeftIsNone ==
  [][/\ FrameProcessed =>
          \A g \in 1 .. Len(groups) :
            OutsideFrame(g, Len(heard'.payload) \div 3) =>
              group_rgb'[g] = None /\ group_brightness'[g] = None
     /\ GroupsRead =>
          \A g \in 1 .. Len(groups) :
            (\A e \in Members(g) : Colourless(e)) =>
              group_rgb'[g] = None /\ group_brightness'[g] = None]_vars

\* The calls the handler of this step made for group g (counted from 1), in order.
CallsOfGroup(g) == SelectSeq(heard'.calls, LAMBDA c : c.group = g - 1)

\* The colour of LED idx (counted from 0) in the payload of this step.
LedOfPayload(idx) ==
  <<heard'.payload[3 * idx + 1], heard'.payload[3 * idx + 2], heard'.payload[3 * idx + 3]>>

\* C17: when a frame is processed, a one_to_one group whose throttle is open
\* makes one call per pair of its k-th light and its k-th LED index inside
\* the frame, in ascending order of the indices, with that LED's calibrated
\* colour, over the shorter of the two lists; the lights beyond the matched
\* indices get no call and no pending command from the group.
C17_PairedPositionally ==
  [][FrameProcessed =>
       \A g \in 1 .. Len(groups) :
         (groups[g].strategy = "one_to_one" /\ (g - 1) \notin heard'.throttled) =>
           LET n == Len(heard'.payload) \div 3
               matched == SelectSeq(groups[g].led_indices, LAMBDA idx : idx < n)
               ents == groups[g].entities
               made == CallsOfGroup(g)
           IN /\ \A k \in 1 .. (Len(matched) - 1) : matched[k] < matched[k + 1]
              /\ Len(made) = Min2(Len(ents), Len(matched))
              /\ \A k \in 1 .. Len(made) :
                   /\ made[k].entity_id = ents[k]
                   /\ made[k].colour = ApplyCalibration(LedOfPayload(matched[k]), calibration)
                   /\ ents[k] \in DOMAIN pending_light_commands'
              /\ \A k \in (Len(matched) + 1) .. Len(ents) :
                   (\A h \in 1 .. Len(groups) : h # g => ents[k] \notin Members(h)) =>
                     (ents[k] \in DOMAIN pending_light_commands' <=>
                        ents[k] \in DOMAIN pending_light_commands)]_vars

\* A frame of three LEDs has been processed by the one_to_one group of lights
\* a, b, c on LEDs 1 and 2: a and b were called and have commands pending, c
\* was not and has none.
C17_Witness ==
  /\ groups = PairedGroups
  /\ Len(heard.payload) = 9
  /\ \E k \in 1 .. Len(heard.calls) : heard.calls[k].entity_id = "a" /\ heard.calls[k].group = 0
  /\ \E k \in 1 .. Len(heard.calls) : heard.calls[k].entity_id = "b" /\ heard.calls[k].group = 0
  /\ \A k \in 1 .. Len(heard.calls) : heard.calls[k].entity_id # "c"
  /\ {"a", "b"} \subseteq DOMAIN pending_light_commands
  /\ "c" \notin DOMAIN pending_light_commands

\* The colours of the LEDs of group g (counted from 1) that are inside the
\* payload of this step, in the order of the group's indices.
MatchedColours(g) ==
  LET n == Len(heard'.payload) \div 3
      matched == SelectSeq(groups[g].led_indices, LAMBDA idx : idx < n)
  IN [k \in 1 .. Len(matched) |-> LedOfPayload(matched[k])]

\* C18: when a frame is processed, a one_to_one group shows the average of
\* its matched LED colours each calibrated on its own, and sends each light its
\* own LED's calibrated colour; a group of any other strategy aggregates the
\* matched LED colours as they are, calibrates that one colour, shows it and
\* sends it to every one of its lights.
C18_CalibrationOrder ==
  [][FrameProcessed =>
       \A g \in 1 .. Len(groups) :
         \A raw \in {MatchedColours(g)} :
           raw # <<>> =>
             \A each \in {[k \in 1 .. Len(raw) |-> ApplyCalibration(raw[k], calibration)]} :
               \A shown \in {IF groups[g].strategy = "one_to_one"
                              THEN AggregateColour(each, "average", 1)[1]
                              ELSE ApplyCalibration(
                                     AggregateColour(raw, groups[g].strategy, 1)[1],
                                     calibration)} :
                 \A made \in {CallsOfGroup(g)} :
                   /\ group_rgb'[g] = Some(RgbIntensityToService(shown)[1])
                   /\ group_brightness'[g] = Some(RgbIntensityToService(shown)[2])
                   /\ groups[g].strategy = "one_to_one" =>
                        \A k \in 1 .. Len(made) : made[k].colour = each[k]
                   /\ groups[g].strategy # "one_to_one" =>
                        /\ \A k \in 1 .. Len(made) : made[k].colour = shown
                        /\ (g - 1) \notin heard'.throttled =>
                             /\ Len(made) = Len(groups[g].entities)
                             /\ \A k \in 1 .. Len(made) :
                                  made[k].entity_id = groups[g].entities[k]]_vars

\* With a brightness cutoff of 100, a bright red LED and a dim green one were
\* averaged by the group of lights a and b and the average was kept by the
\* calibration; calibrated one by one the green LED would have been cut.
C18_Witness ==
  /\ phase = "running"
  /\ groups = Groups
  /\ calibration.brightness_cutoff = 100
  /\ heard.payload = BrightLed \o DimLed
  /\ \E k \in 1 .. Len(heard.calls) :
       heard.calls[k].group = 0 /\ heard.calls[k].colour = <<128, 32, 0>>
  /\ group_rgb[1] = Some(<<255, 64, 0>>)
  /\ group_brightness[1] = Some(128)

\* C19: with sync_interval > 0, a processed frame makes calls for a group
\* only when at least sync_interval has passed since the group's timestamp, and
\* then sets the timestamp to the clock reading; a frame that makes no call for
\* a group leaves its timestamp alone, so the timestamp is the time of the
\* group's last batch of calls, batches of one group are at least
\* sync_interval apart, and each group is throttled by its own timestamp.  The
\* stored frame and every group's state are those of the frame, throttled or
\* not.
C19_ThrottledPerGroup ==
  [][(FrameProcessed /\ sync_interval > 0) =>
       /\ ReflectsPayload
       /\ \A g \in 1 .. Len(groups) :
            /\ Commanded(g) =>
                 /\ now - last_listen_update[g] >= sync_interval
                 /\ last_listen_update'[g] = now
            /\ ~Commanded(g) => last_listen_update'[g] = last_listen_update[g]
            /\ now - last_listen_update[g] < sync_interval =>
                 /\ ~Commanded(g)
                 /\ \A e \in Members(g) :
                      (\A h \in 1 .. Len(groups) : h # g => e \notin Members(h)) =>
                        /\ e \in DOMAIN pending_light_commands' <=>
                             e \in DOMAIN pending_light_commands
                        /\ e \in DOMAIN pending_light_commands =>
                             pending_light_commands'[e] = pending_light_commands[e]
            /\ (~OutsideFrame(g, Len(heard'.payload) \div 3)
                  /\ now - last_listen_update[g] >= sync_interval) => Commanded(g)]_vars

\* One frame found the second group's throttle closed, less than sync_interval
\* after the frame that last commanded it, and the first group's open: the
\* first group was called, the second was not, and both have the frame's colour.
C19_Witness ==
  /\ phase = "running"
  /\ sync_interval > 0
  /\ heard.accepted
  /\ heard.throttled = {1}
  /\ \E k \in 1 .. Len(heard.calls) : heard.calls[k].group = 0
  /\ last_listen_update[2] > 0
  /\ last_listen_update[1] = now
  /\ now - last_listen_update[2] < sync_interval
  /\ group_rgb[1] # None
  /\ group_rgb[2] # None

\* C20: with a spacing s > 0 a worker whose outbound call has returned sleeps
\* for at least s and at most s plus a quarter of s before it services the
\* next target, and with s = 0 it takes no sleep; an outbound call is never
\* issued less than s after the outbound call before it.
C20_CallsSpaced ==
  [][/\ \A w \in WorkerIds :
          (wpc[w] = "call" /\ wpc'[w] \in {"sleep", "idle"}) =>
            IF command_spacing > 0
            THEN /\ wpc'[w] = "sleep"
                 /\ wwake'[w] - now >= command_spacing
                 /\ 4 * (wwake'[w] - now) <= 5 * command_spacing
            ELSE /\ wpc'[w] = "idle"
                 /\ wwake'[w] = 0
     /\ \A w \in WorkerIds :
          (wpc[w] = "sleep" /\ wpc'[w] = "idle") => now >= wwake[w]
     /\ (CallsIssued # {} /\ called_at # None) =>
          now - called_at[1] >= command_spacing]_vars

\* The outbound call of worker w raises in this step: the task ends straight
\* from the call, without a cancel().
CallFailed(w) == wpc[w] = "call" /\ wpc'[w] \in {"done", "none"}

\* C21: the step in which an outbound call raises drops the command: the
\* queue, the queued set and the pending map stay as they are and the worker
\* holds no command.  Every outbound call is issued for a command that was
\* enqueued and has not been handed to a call since, so the target of a failed
\* call is called again only after it has been enqueued again.
C21_FailedCallNotRetried ==
  [][/\ \A w \in WorkerIds :
          CallFailed(w) =>
            /\ UNCHANGED <<command_queue, queued_entities, pending_light_commands, owed>>
            /\ witem'[w] = NoItem
     /\ \A w \in CallsIssued :
          /\ witem'[w].entity_id \in DOMAIN owed
          /\ witem'[w] = owed[witem'[w].entity_id]
          /\ witem'[w].entity_id \notin DOMAIN owed']_vars

\* While the coordinator runs its worker has ended, which only a raised call
\* does, and nothing is queued or pending: the failed command is gone.
C21_Witness ==
  /\ phase = "running"
  /\ command_worker # 0
  /\ wpc[command_worker] = "done"
  /\ called_at # None
  /\ command_queue = <<>>
  /\ pending_light_commands = EmptyDict
  /\ \A w \in WorkerIds : witem[w] = NoItem

\* async_setup runs in this step.
Started == phase = "constructed" /\ phase' = "running"

\* The state of light e changes in this step.
LightChanged(e) == lights'[e] # lights[e]

\* C22: the step in which a coordinator in broadcast mode with a group is
\* started subscribes to the light states, sets every group's state to the one
\* read from its lights and sends the forced signal, whatever the clock reads;
\* from then until it is stopped a change of any member light leaves a live
\* debounce task behind.  In listen mode the light states are never subscribed
\* to, a change of a light creates no task, and nothing is ever published.
C22_StartSubscribesAndSyncs ==
  [][/\ (Started /\ mode = MODE_BROADCAST /\ groups # <<>>) =>
          /\ state_listener_unsub'
          /\ \E choice \in RandomChoices :
               /\ group_rgb' = UpdateGroupRgbFromLights(group_rgb, lights, choice)
               /\ group_brightness' =
                    UpdateGroupBrightnessFromLights(group_brightness, lights, choice)
          /\ last_groups_signal' = now
     /\ (mode = MODE_BROADCAST /\ phase = "running") =>
          \A e \in EntitiesOf(groups) :
            LightChanged(e) =>
              /\ state_listener_unsub
              /\ broadcast_pending' # 0
              /\ bpc'[broadcast_pending'] \in {"ready", "sleep", "publish"}
     /\ mode = MODE_LISTEN =>
          /\ ~state_listener_unsub'
          /\ UNCHANGED <<outbox, broadcast_pending, bpc, last_broadcast_publish>>]_vars

\* A broadcast coordinator was started one tick after construction, inside the
\* first sync interval: the signal was sent at that reading, and a later change
\* of the light that only the first group holds has a debounce task alive.
C22_Witness ==
  /\ mode = MODE_BROADCAST
  /\ phase = "running"
  /\ sync_interval = MaxInterval
  /\ last_groups_signal = 1
  /\ now = 1
  /\ state_listener_unsub
  /\ lights["a"] # NoState
  /\ lights["b"] = NoState
  /\ broadcast_pending # 0
  /\ bpc[broadcast_pending] = "ready"

\* A listen coordinator is running and a light has changed: no task, nothing
\* published.
C22_ListenWitness ==
  /\ mode = MODE_LISTEN
  /\ phase = "running"
  /\ lights["a"] # NoState
  /\ broadcast_pending = 0
  /\ outbox = None

\* The colour of LED idx (counted from 0) in a payload.
LedOf(payload, idx) == <<payload[3 * idx + 1], payload[3 * idx + 2], payload[3 * idx + 3]>>

\* The position of LED index idx in the LED list of group g, 0 when absent.
LedPosition(g, idx) ==
  LET at == {i \in 1 .. Len(groups[g].led_indices) : groups[g].led_indices[i] = idx}
  IN IF at = {} THEN 0 ELSE CHOOSE i \in at : TRUE

\* The colour group g writes at LED idx from the lights as they are, with the
\* draws of choice: for a one_to_one group the colour of the light at the same
\* position as idx, for any other the aggregate of the colours its lights
\* report; None when the group has no such LED, or that light, or every light
\* of the group, has no colour.
GroupWrites(g, idx, choice) ==
  LET pos == LedPosition(g, idx)
  IN IF pos = 0 THEN None
     ELSE IF groups[g].strategy = "one_to_one"
          THEN IF pos > Len(groups[g].entities) \/ Colourless(groups[g].entities[pos])
               THEN None
               ELSE GetEntityColour(lights[groups[g].entities[pos]])
          ELSE IF \A e \in Members(g) : Colourless(e)
               THEN None
               ELSE AggregateColour(GroupLightColours(groups[g], lights),
                                    groups[g].strategy, choice[g])

\* C23: in every published frame an LED that no group writes is black, and an
\* LED that groups write has the colour of the last of them: for a one_to_one
\* group the colour of the light paired with that LED by position, a light
\* without a colour leaving its own LED alone and the other pairs where they
\* are; for any other group the aggregate of the colours its lights report, the
\* same at each of its LEDs (one draw per random group and frame); a group
\* none of whose lights has a colour writes nothing.
C23_FrameFromGroups ==
  [][Published # {} =>
       \A payload \in {outbox'[1]} :
         \E choice \in RandomChoices :
           \A idx \in 0 .. (Len(payload) \div 3) - 1 :
             LET writers == {g \in 1 .. Len(groups) : GroupWrites(g, idx, choice) # None}
             IN IF writers = {}
                THEN LedOf(payload, idx) = <<0, 0, 0>>
                ELSE LedOf(payload, idx) =
                       GroupWrites(CHOOSE g \in writers : \A h \in writers : h <= g,
                                   idx, choice)[1]]_vars

\* A frame of three LEDs was published for the paired group list while the
\* first light of the one_to_one group had no colour and its second had one:
\* LED 1 is black and LED 2 has the second light's colour; LED 0 has the colour
\* of the other group's light.
C23_Witness ==
  /\ groups = PairedGroups
  /\ outbox # None
  /\ Len(outbox[1]) = 9
  /\ \E t \in TaskIds : bpc[t] = "publish"
  /\ Colourless("a")
  /\ ~Colourless("b")
  /\ ~Colourless("d")
  /\ LedOf(outbox[1], 1) = <<0, 0, 0>>
  /\ LedOf(outbox[1], 2) = GetEntityColour(lights["b"])[1]
  /\ LedOf(outbox[1], 0) = GetEntityColour(lights["d"])[1]

\* A frame was published for the first group list while one light of the
\* averaging group had no colour: both of its LEDs carry the other's colour.
C23_AggregateWitness ==
  /\ groups = Groups
  /\ outbox # None
  /\ Len(outbox[1]) = 9
  /\ \E t \in TaskIds : bpc[t] = "publish"
  /\ Colourless("b")
  /\ ~Colourless("a")
  /\ LedOf(outbox[1], 0) = GetEntityColour(lights["a"])[1]
  /\ LedOf(outbox[1], 1) = GetEntityColour(lights["a"])[1]
  /\ LedOf(outbox[1], 2) = <<0, 0, 0>>

\* async_publish_colour hands a payload to the topic of the outbound frames in
\* this step.
ColourPublished ==
  Len(colour_calls') > Len(colour_calls) /\ command_topic = led_out_topic

\* C24: the LED count is the configured one until an inbound frame has been
\* accepted and the LED count of the stored frame from then on, and it is at
\* least 1; every payload handed to the outbound topic, by a debounce task or
\* by a colour command, is 3 * led_count bytes long, each a value of 0 .. 255,
\* for the LED count at that moment.
C24_PayloadLength ==
  [][/\ led_count >= 1
     /\ (frame = None /\ phase \in {"constructed", "running"}) => led_count = ConfLedCount
     /\ frame # None => led_count = frame[1].led_count
     /\ (Published # {} \/ ColourPublished) =>
          /\ Len(outbox'[1]) = 3 * led_count
          /\ led_count' = led_count
          /\ \A i \in 1 .. Len(outbox'[1]) : outbox'[1][i] \in 0 .. 255]_vars

\* A frame of one LED was accepted and a payload of three bytes is being
\* published; the configured LED count is larger.
C24_Witness ==
  /\ frame # None
  /\ led_count = 1
  /\ ConfLedCount > 1
  /\ outbox # None
  /\ Len(outbox[1]) = 3
  /\ \E t \in TaskIds : bpc[t] = "publish"
  /\ \E e \in EntitiesOf(groups) : ~Colourless(e)

\* A frame was published for the third group list while its two lights had
\* different colours: both LEDs of the random group carry the second light's
\* colour, half red, and the LED of the other group its dominant colour, the
\* first light's green.
C23_RandomWitness ==
  /\ groups = MixedGroups
  /\ outbox # None
  /\ \E t \in TaskIds : bpc[t] = "publish"
  /\ lights["a"] = HsLightState(<<120, 100>>, None)
  /\ lights["b"] = LightState(Some(<<255, 0, 0>>), Some(128))
  /\ outbox[1] = <<128, 0, 0, 128, 0, 0, 0, 255, 0>>

\* A debounce task gets past the checks of _publish_broadcast_frame in this
\* step and requests the signal without force.
TaskRequestsSignal ==
  /\ mode = MODE_BROADCAST /\ groups # <<>> /\ led_out_topic # ""
  /\ \E t \in TaskIds : bpc[t] \in {"ready", "sleep"} /\ bpc'[t] \in {"publish", "done", "none"}

\* A group is commanded in this step (the only step that is none of the start,
\* a delivered payload, a light's change, a task's step, a worker's step and a
\* clock tick).
GroupCommandGiven ==
  /\ vars' # vars
  /\ UNCHANGED <<phase, heard, lights, bpc, now>>
  /\ \A w \in WorkerIds : wpc[w] \in {"none", "done"} \/ wpc'[w] = wpc[w]

\* C25: the time of the last signal only ever changes to the clock reading, by
\* a signal being sent.  A request without force (a processed frame, a
\* debounce task reading the lights) sends when sync_interval <= 0 or at least
\* sync_interval has passed since the last signal sent, forced or not, and
\* otherwise sends nothing and leaves that time alone.  A forced request
\* (start in broadcast mode, a group command) always sends and sets that time
\* to the clock reading.
C25_SignalThrottled ==
  [][/\ last_groups_signal' # last_groups_signal => last_groups_signal' = now
     /\ (FrameProcessed \/ TaskRequestsSignal) =>
          IF sync_interval <= 0 \/ now - last_groups_signal >= sync_interval
          THEN last_groups_signal' = now
          ELSE last_groups_signal' = last_groups_signal
     /\ FrameProcessed =>
          (heard'.groups_signal <=>
             (sync_interval <= 0 \/ now - last_groups_signal >= sync_interval))
     /\ ((Started /\ mode = MODE_BROADCAST /\ groups # <<>>) \/ GroupCommandGiven) =>
          last_groups_signal' = now]_vars

\* A group command at t = 1 sent the forced signal inside the first interval;
\* the frame processed at t = 2, which commanded the first group and replaced
\* the states the group command had set, sent no signal.
C25_Witness ==
  /\ phase = "running"
  /\ mode = MODE_LISTEN
  /\ sync_interval = 2
  /\ now = 2
  /\ last_groups_signal = 1
  /\ last_listen_update[1] = 2
  /\ heard.accepted
  /\ ~heard.groups_signal
  /\ group_rgb[1] \notin {None, Some(<<0, 0, 0>>)}
  /\ group_rgb[2] = None

\* The colour group g (counted from 1) shows for the colours raw of its LEDs
\* inside the frame: aggregated and calibrated (a one_to_one group averages the
\* calibrated colours).
ShownColour(g, raw) ==
  IF groups[g].strategy = "one_to_one"
  THEN AggregateColour([k \in 1 .. Len(raw) |-> ApplyCalibration(raw[k], calibration)],
                       "average", 1)[1]
  ELSE ApplyCalibration(AggregateColour(raw, groups[g].strategy, 1)[1], calibration)

\* C26 as stated: after a frame is processed, a group with an LED inside the
\* frame has the aggregated and calibrated colour as its colour and that
\* colour's largest channel as its brightness.
C26_StateIsCalibratedColour ==
  [][FrameProcessed =>
       \A g \in 1 .. Len(groups) :
         \A raw \in {MatchedColours(g)} :
           raw # <<>> =>
             \A shown \in {ShownColour(g, raw)} :
               /\ group_rgb'[g] = Some(shown)
               /\ group_brightness'[g] = Some(Max3(shown))]_vars

\* C26 amended: after a frame is processed, a group with an LED inside the
\* frame has the largest channel of its aggregated and calibrated colour as its
\* brightness, and as its colour that colour scaled to full intensity: each
\* channel times 255 / brightness rounded to a nearest integer, so its largest
\* channel is 255; a black colour is stored as black with brightness 0.
C26_StateIsNormalisedColour ==
  [][FrameProcessed =>
       \A g \in 1 .. Len(groups) :
         \A raw \in {MatchedColours(g)} :
           raw # <<>> =>
             \A shown \in {ShownColour(g, raw)} :
               \A top \in {Max3(shown)} :
                 /\ group_brightness'[g] = Some(top)
                 /\ group_rgb'[g] # None
                 /\ IF top = 0
                    THEN group_rgb'[g] = Some(<<0, 0, 0>>)
                    ELSE /\ Max3(group_rgb'[g][1]) = 255
                         /\ \A i \in 1 .. 3 :
                              \A diff \in {group_rgb'[g][1][i] * top - shown[i] * 255} :
                                2 * diff <= top /\ 2 * diff >= 0 - top]_vars

\* With a brightness cutoff of 100 the paired group's two LEDs were a bright
\* red and a dim green that was cut: their average (128, 0, 0) is stored as
\* full red with brightness 128; the other group's dim LED is stored as black.
C26_Witness ==
  /\ phase = "running"
  /\ mode = MODE_LISTEN
  /\ groups = PairedGroups
  /\ heard.accepted
  /\ heard.payload = DimLed \o BrightLed \o DimLed
  /\ group_rgb[1] = Some(<<255, 0, 0>>)
  /\ group_brightness[1] = Some(128)
  /\ group_rgb[2] = Some(<<0, 0, 0>>)
  /\ group_brightness[2] = Some(0)

\* _aggregate_colour has returned a colour for the average of a list.
Averaged ==
  /\ args.fn = "aggregate_colour"
  /\ args.strategy = "average"
  /\ result # None
  /\ result[1] # None

\* C27 as stated: every channel of the average is the mean of that channel
\* rounded to the nearest integer, a half rounded up, and the average of
\* (255,0,0) and (0,255,0) is (128,128,128).
C27_AverageRoundsHalfUp ==
  Averaged =>
    /\ \A i \in 1 .. 3 :
         result[1][1][i] =
           (2 * SumChannel(args.colours, i) + Len(args.colours)) \div (2 * Len(args.colours))
    /\ args.colours = <<(<<255, 0, 0>>), (<<0, 255, 0>>)>> => result[1][1] = <<128, 128, 128>>

\* C27 amended: every channel of the average is the mean of that channel
\* rounded to the nearest integer, a half rounded to the even neighbour, and
\* the average of (255,0,0) and (0,255,0) is (128,128,0).
C27_AverageRoundsHalfEven ==
  Averaged =>
    /\ \A i \in 1 .. 3 :
         \A n \in {Len(args.colours)} :
           \A diff \in {n * result[1][1][i] - SumChannel(args.colours, i)} :
             /\ 2 * diff <= n
             /\ 2 * diff >= 0 - n
             /\ (2 * diff = n \/ 2 * diff = 0 - n) => result[1][1][i] % 2 = 0
    /\ args.colours = <<(<<255, 0, 0>>), (<<0, 255, 0>>)>> => result[1][1] = <<128, 128, 0>>

\* The average of (1,0,2) and (0,0,0) has been taken: the means 0.5, 0 and 1
\* give (0,0,1).
C27_Witness ==
  /\ Averaged
  /\ args.colours = <<(<<1, 0, 2>>), (<<0, 0, 0>>)>>
  /\ result = Some(Some(<<0, 0, 1>>))

\* apply_calibration returns in this step.
Calibrated == args.fn = "apply_calibration" /\ result = None /\ result' # None

\* The three cutoffs of a calibration, in channel order.
ChannelCutoffs(cal) == <<cal.cutoff_red, cal.cutoff_green, cal.cutoff_blue>>

\* C28: apply_calibration returns a colour each channel of which is 0 or at
\* least that channel's cutoff.  The channels below their own cutoff are zeroed
\* first; when brightness_cutoff is not 0 and the largest of the channels so
\* zeroed is below it the colour returned is (0,0,0), otherwise it is the
\* colour with the zeroed channels.  The call changes no field of the
\* coordinator.
C28_CutoffsInOrder ==
  [][Calibrated =>
       \A out \in {result'[1]} :
         \A cut \in {ChannelCutoffs(args.cal)} :
           \A kept \in {[i \in 1 .. 3 |->
                           IF Clamp255(args.rgb[i]) < cut[i] THEN 0 ELSE Clamp255(args.rgb[i])]} :
             /\ \A i \in 1 .. 3 : out[i] = 0 \/ out[i] >= cut[i]
             /\ (args.cal.brightness_cutoff # 0 /\ Max3(kept) < args.cal.brightness_cutoff)
                  => out = <<0, 0, 0>>
             /\ ~(args.cal.brightness_cutoff # 0 /\ Max3(kept) < args.cal.brightness_cutoff)
                  => out = kept
             /\ UNCHANGED <<cfgvars, now, lifevars, workervars, queuevars, groupvars,
                            bcastvars, framevars, wwake>>]_vars

\* (120,30,0) was calibrated with a red cutoff of 200 and a brightness cutoff
\* of 100: red is zeroed first, the largest channel left is 30, and the colour
\* returned is black although the largest channel given is 120.
C28_Witness ==
  /\ args.fn = "apply_calibration"
  /\ args.rgb = <<120, 30, 0>>
  /\ args.cal = [cutoff_red |-> 200, cutoff_green |-> 0, cutoff_blue |-> 0,
                 brightness_cutoff |-> 100]
  /\ result = Some(<<0, 0, 0>>)

\* C29: a byte buffer of 3N bytes decodes into N strings of six hex digits,
\* and the payload built from those strings is the buffer, byte for byte; a
\* decoded string converted to RGB and formatted again is the same string.
C29_EncodingRoundTrips ==
  /\ args.fn = "publish_frame_bytes" =>
       /\ Len(args.frame) * 3 = Len(args.buf)
       /\ \A k \in 1 .. Len(args.frame) :
            /\ Len(args.frame[k]) = 6
            /\ \A d \in 1 .. 6 : args.frame[k][d] \in 0 .. 15
       /\ result # None => result[1] = Some(args.buf)
  /\ (args.fn = "format_colour" /\ result # None) => result[1] = args.colour

\* A buffer of two LEDs with bytes below 16 came back from the payload
\* builder as it was.
C29_Witness ==
  /\ args.fn = "publish_frame_bytes"
  /\ args.buf = <<0, 9, 10, 15, 16, 171>>
  /\ args.frame = << <<0, 0, 0, 9, 0, 10>>, <<0, 15, 1, 0, 10, 11>> >>
  /\ result = Some(Some(args.buf))

\* The string 0f10ab was converted to (15, 16, 171) and formatted back.
C29_HexWitness ==
  /\ args.fn = "format_colour"
  /\ args.colour = <<0, 15, 1, 0, 10, 11>>
  /\ args.rgb = <<15, 16, 171>>
  /\ result = Some(args.colour)

\* The sum of a colour's three channels.
ChannelSum(c) == c[1] + c[2] + c[3]

\* C30: the dominant colour of a list is the colour at the first position
\* whose channel sum no colour of the list exceeds, and aggregating an empty
\* list returns None whatever the strategy.
C30_DominantFirstMaximal ==
  (args.fn = "aggregate_colour" /\ result # None) =>
    /\ args.colours = <<>> => result[1] = None
    /\ (args.colours # <<>> /\ args.strategy = "dominant") =>
         \E k \in 1 .. Len(args.colours) :
           /\ result[1] = Some(args.colours[k])
           /\ \A j \in 1 .. Len(args.colours) :
                /\ ChannelSum(args.colours[j]) <= ChannelSum(args.colours[k])
                /\ j < k => ChannelSum(args.colours[j]) < ChannelSum(args.colours[k])

\* Of (1,0,2), (0,255,0) and (255,0,0) the dominant colour is (0,255,0), the
\* first of the two of sum 255.
C30_Witness ==
  /\ args.fn = "aggregate_colour"
  /\ args.strategy = "dominant"
  /\ args.colours = <<(<<1, 0, 2>>), (<<0, 255, 0>>), (<<255, 0, 0>>)>>
  /\ result = Some(Some(<<0, 255, 0>>))

\* The empty list has been aggregated at random: None.
C30_EmptyWitness ==
  /\ args.fn = "aggregate_colour"
  /\ args.strategy = "random"
  /\ args.colours = <<>>
  /\ result = Some(None)

\* The entities and the LED indices a configured item names that count.
EntitySet(item) == {item.entities[i] : i \in 1 .. Len(item.entities)} \ {""}
LedSet(item) ==
  {item.led_indices[i].v :
     i \in {j \in 1 .. Len(item.led_indices) :
              item.led_indices[j].int /\ item.led_indices[j].v >= 0}}

\* The positions of the configured items that name an entity and an LED.
Kept(raw) ==
  {i \in 1 .. Len(raw) : raw[i].dict /\ EntitySet(raw[i]) # {} /\ LedSet(raw[i]) # {}}

\* The LEDs of a payload that are not black.
LitLeds(payload) ==
  {idx \in 0 .. (Len(payload) \div 3) - 1 : LedOf(payload, idx) # <<0, 0, 0>>}

\* C31: every group held has an entity and an LED index, its LED indices are
\* non-negative and strictly ascending; the groups held are the configured
\* items that name an entity and a valid LED index, so an item without either
\* is not held; commands are queued and sent only for lights of held groups,
\* there is one state slot per held group, and a published frame is lit only
\* at LEDs of held groups.
C31_GroupsValidated ==
  /\ \A g \in 1 .. Len(groups) :
       /\ groups[g].entities # <<>>
       /\ groups[g].led_indices # <<>>
       /\ \A i \in 1 .. Len(groups[g].entities) : groups[g].entities[i] # ""
       /\ \A i \in 1 .. Len(groups[g].led_indices) : groups[g].led_indices[i] >= 0
       /\ \A i, j \in 1 .. Len(groups[g].led_indices) :
            i < j => groups[g].led_indices[i] < groups[g].led_indices[j]
       /\ \E i \in Kept(args.raw) :
            /\ EntitySet(args.raw[i]) = EntitiesOf(<<groups[g]>>)
            /\ LedSet(args.raw[i]) =
                 {groups[g].led_indices[k] : k \in 1 .. Len(groups[g].led_indices)}
  /\ Len(groups) = Cardinality(Kept(args.raw))
  /\ queued_entities \subseteq EntitiesOf(groups)
  /\ DOMAIN pending_light_commands \subseteq EntitiesOf(groups)
  /\ \A w \in WorkerIds : wpc[w] = "call" => witem[w].entity_id \in EntitiesOf(groups)
  /\ phase = "running" => Len(group_rgb) = Len(groups) /\ Len(group_brightness) = Len(groups)
  /\ outbox # None =>
       LitLeds(outbox[1]) \subseteq
         UNION {{groups[g].led_indices[k] : k \in 1 .. Len(groups[g].led_indices)} :
                  g \in 1 .. Len(groups)}

\* Of two configured items the one without a valid LED index is not held; the
\* other is, with its empty entity dropped and its LED indices sorted and
\* distinct, and a command for one of its lights is being sent while light "c"
\* of the excluded item has none.
C31_Witness ==
  /\ Len(args.raw) = 2
  /\ args.raw[1].dict /\ args.raw[1].entities = <<"c">>
  /\ args.raw[2].dict /\ args.raw[2].entities = <<"a", "", "b">>
  /\ Len(groups) = 1
  /\ groups[1].name = "Group 2"
  /\ groups[1].entities = <<"a", "b">>
  /\ groups[1].led_indices = <<0, 1>>
  /\ \E w \in WorkerIds : wpc[w] = "call" /\ witem[w].entity_id = "a"

\* Broadcast mode: a frame was published for a configured list whose first
\* item has no entity; only the LED of the held group is lit.
C31_FrameWitness ==
  /\ Len(args.raw) = 2
  /\ args.raw[1].dict /\ args.raw[1].entities = <<"">>
  /\ Len(groups) = 1
  /\ groups[1].name = "Desk"
  /\ outbox # None
  /\ LitLeds(outbox[1]) = {2}

\* C32: between the steps of the tasks (no step ends inside the critical
\* section) the FIFO queue holds no identifier twice, every identifier on the
\* queue is in the set of queued identifiers, and the pending map has a command
\* for exactly the identifiers of that set.
C32_QueueBookkeeping ==
  /\ \A i, j \in 1 .. Len(command_queue) : i # j => command_queue[i] # command_queue[j]
  /\ \A i \in 1 .. Len(command_queue) : command_queue[i] \in queued_entities
  /\ DOMAIN pending_light_commands = queued_entities

\* Both lights are queued, one of them with a command that replaced an
\* earlier one, while a worker is in its call for a light that was queued
\* again since.
C32_Witness ==
  /\ Len(command_queue) = 2
  /\ overwritten # {}
  /\ \E w \in WorkerIds : wpc[w] = "call" /\ witem[w].entity_id \in queued_entities

\* Target t was enqueued again while the call that was drained for it is in
\* progress.
RequeuedDuringSend(t) ==
  /\ phase = "running"
  /\ \E w \in WorkerIds : wpc[w] = "call" /\ witem[w].entity_id = t
  /\ t \in DOMAIN owed

\* C33: a target enqueued again while its drained command is being sent is on
\* the queue again with the new command pending, and a further outbound call
\* for it, carrying the last command enqueued, is eventually issued (unless the
\* coordinator is stopped first).
C33_NoLostUpdate ==
  /\ [](\A t \in Entities :
          RequeuedDuringSend(t) =>
            /\ t \in QueueSet
            /\ t \in queued_entities
            /\ pending_light_commands[t] = owed[t])
  /\ \A t \in Entities :
       RequeuedDuringSend(t) ~> (t \notin DOMAIN owed \/ phase # "running")

\* The worker tasks that are running their loop (created, neither ended nor
\* cancelled).
LiveWorkers == {w \in WorkerIds : wpc[w] \in {"idle", "call", "sleep"}}

\* C34: at any time at most one dispatch worker task is alive, and at most one
\* outbound call is in progress.
C34_SingleWorker ==
  /\ Cardinality(LiveWorkers) <= 1
  /\ Cardinality({w \in WorkerIds : wpc[w] = "call"}) <= 1

\* _call_light_intensity hands its command to _queue_light_service in this step.
IntensityCalled == args.fn = "call_light_intensity" /\ result = None /\ result' # None

\* C35: the command _call_light_intensity enqueues for a colour with every
\* channel 0 is a turn-off; for any other colour it is a turn-on whose
\* brightness is the colour's largest channel, in 1..255, and whose colour has
\* 255 at the largest channel and every channel rescaled by 255 over the
\* brightness, to the nearest integer.  No turn-on with brightness 0 is pending.
C35_IntensityNormalised ==
  [][/\ IntensityCalled =>
          /\ command_queue' = <<args.entity_id>>
          /\ \A command \in {pending_light_commands'[args.entity_id]} :
               \A top \in {Max3(args.colour)} :
                 IF args.colour = <<0, 0, 0>>
                 THEN command.service = "turn_off"
                 ELSE /\ command.service = "turn_on"
                      /\ command.brightness = Some(top)
                      /\ top \in 1 .. 255
                      /\ Max3(command.rgb_color[1]) = 255
                      /\ \A i \in 1 .. 3 :
                           /\ args.colour[i] = top => command.rgb_color[1][i] = 255
                           /\ 2 * command.rgb_color[1][i] * top - 2 * 255 * args.colour[i]
                                \in -top .. top
     /\ \A e \in DOMAIN pending_light_commands' :
          pending_light_commands'[e].service = "turn_on"
            => pending_light_commands'[e].brightness # Some(0)]_vars

\* (128,1,0) was enqueued as a turn-on of (255,2,0) at brightness 128.
C35_Witness ==
  /\ args.fn = "call_light_intensity"
  /\ args.colour = <<128, 1, 0>>
  /\ "a" \in DOMAIN pending_light_commands
  /\ pending_light_commands["a"] =
       TurnOnCommand("a", <<255, 2, 0>>, Some(128), DEFAULT_TRANSITION)

\* Black was enqueued as a turn-off.
C35_BlackWitness ==
  /\ args.fn = "call_light_intensity"
  /\ args.colour = <<0, 0, 0>>
  /\ "a" \in DOMAIN pending_light_commands
  /\ pending_light_commands["a"] = TurnOffCommand("a", DEFAULT_TRANSITION)

\* The lights of group g (counted from 0).
MembersOf(g) == EntitiesOf(<<groups[g + 1]>>)

\* What a direct command for group g leaves in the dispatcher: commands(e) is
\* pending for every member e, which is on the queue once; the other lights
\* are as they were.
OneCommandPerMember(g, command) ==
  /\ \A e \in MembersOf(g) :
       /\ e \in queued_entities'
       /\ e \in DOMAIN pending_light_commands'
       /\ pending_light_commands'[e] = command[e]
       /\ Cardinality({i \in 1 .. Len(command_queue') : command_queue'[i] = e}) = 1
  /\ \A e \in Entities \ MembersOf(g) :
       /\ e \in DOMAIN pending_light_commands' <=> e \in DOMAIN pending_light_commands
       /\ e \in DOMAIN pending_light_commands =>
            pending_light_commands'[e] = pending_light_commands[e]
  /\ Len(command_queue') = Len(command_queue) + Cardinality(MembersOf(g) \ queued_entities)

\* The state recorded for group g is colour rgb at brightness b.
Recorded(g, rgb, b) ==
  /\ Len(group_rgb') > g
  /\ Len(group_brightness') > g
  /\ group_rgb'[g + 1] = Some(rgb)
  /\ group_brightness'[g + 1] = Some(b)

\* C36: a direct group command with an index outside the configured groups
\* changes nothing.  With a valid index async_set_group_colour leaves one
\* command per member light pending, a turn-off when a brightness <= 0 is given
\* and otherwise a turn-on with the colour as given (and the brightness, held
\* to 0..255, when one is given), records the colour and that brightness (the
\* colour's largest channel when none is given) as the group's state and sends
\* the signal;
\* async_turn_off_group leaves one turn-off per member light pending, records
\* (0,0,0) at brightness 0 and sends the signal.
C36_DirectGroupCommands ==
  [][/\ \A g \in InputGroupIndexes, c \in InputColours, b \in InputBrightness :
          AsyncSetGroupColour(g, c, b) =>
            IF g < 0 \/ g >= Len(groups)
            THEN UNCHANGED vars
            ELSE /\ OneCommandPerMember(g,
                      [e \in MembersOf(g) |->
                         IF b # None /\ b[1] <= 0
                         THEN TurnOffCommand(e, DEFAULT_TRANSITION)
                         ELSE TurnOnCommand(e, c,
                                            IF b = None THEN None
                                            ELSE Some(Clamp255(b[1])),
                                            DEFAULT_TRANSITION)])
                 /\ Recorded(g, c, IF b = None THEN Max3(c) ELSE Clamp255(b[1]))
                 /\ last_groups_signal' = now
     /\ \A g \in InputGroupIndexes :
          AsyncTurnOffGroup(g) =>
            IF g < 0 \/ g >= Len(groups)
            THEN UNCHANGED vars
            ELSE /\ OneCommandPerMember(g,
                      [e \in MembersOf(g) |-> TurnOffCommand(e, DEFAULT_TRANSITION)])
                 /\ Recorded(g, <<0, 0, 0>>, 0)
                 /\ last_groups_signal' = now]_vars

\* C37: from construction until async_unload empties them the colour list and
\* the brightness list have one slot per configured group; in every state the
\* two lists are equally long, a group's colour is None exactly when its
\* brightness is None, and otherwise each channel of the colour and the
\* brightness are in 0..255.
C37_GroupStateShape ==
  /\ phase # "stopped" =>
       /\ Len(group_rgb) = Len(groups)
       /\ Len(group_brightness) = Len(groups)
  /\ Len(group_rgb) = Len(group_brightness)
  /\ \A g \in 1 .. Len(group_rgb) :
       /\ group_rgb[g] = None <=> group_brightness[g] = None
       /\ group_rgb[g] # None =>
            /\ \A i \in 1 .. 3 : group_rgb[g][1][i] \in 0 .. 255
            /\ group_brightness[g][1] \in 0 .. 255

\* The first group was commanded with a colour and a brightness outside
\* 0..255 and has both held to the range; the second group has no state.
C37_Witness ==
  /\ phase = "running"
  /\ mode = MODE_LISTEN
  /\ group_rgb = <<Some(<<255, 0, 10>>), None>>
  /\ group_brightness = <<Some(255), None>>

\* Broadcast mode: the state of the second group was read from a light that
\* reports a colour outside 0..255.
C37_LightWitness ==
  /\ phase = "running"
  /\ mode = MODE_BROADCAST
  /\ lights["b"] = LightState(Some(WideColour), None)
  /\ Len(group_rgb) = 2
  /\ group_rgb[2] = Some(<<255, 0, 10>>)
  /\ group_brightness[2] = Some(255)

\* C38: over any sequence of async_setup and async_unload calls at most one
\* frame-topic subscription and at most one light-state subscription are
\* active, and no unsubscribe callback is called twice; the active subscription
\* is the last one made and the one whose callback the coordinator holds; once
\* async_unload has returned every callback has been called exactly once, and
\* async_unload called again calls none.
C38_SubscriptionsIdempotent ==
  /\ Cardinality(ActiveSubs(frame_subs)) <= 1
  /\ Cardinality(ActiveSubs(state_subs)) <= 1
  /\ \A i \in 1 .. Len(frame_subs) : frame_subs[i] <= 1
  /\ \A i \in 1 .. Len(state_subs) : state_subs[i] <= 1
  /\ ActiveSubs(frame_subs) = IF frame_unsub THEN {Len(frame_subs)} ELSE {}
  /\ ActiveSubs(state_subs) = IF state_listener_unsub THEN {Len(state_subs)} ELSE {}
  /\ phase = "stopped" =>
       /\ \A i \in 1 .. Len(frame_subs) : frame_subs[i] = 1
       /\ \A i \in 1 .. Len(state_subs) : state_subs[i] = 1

\* Broadcast mode: started, started again, stopped and started once more; the
\* frame topic was subscribed twice and the lights three times, and only the
\* last subscription of each kind is active.
C38_Witness ==
  /\ phase = "running"
  /\ frame_subs = <<1, 0>>
  /\ state_subs = <<1, 1, 0>>

\* C39: the queue's count of unfinished tasks is never negative and is always
\* the identifiers still on the FIFO queue plus the workers that hold one a
\* get returned: every identifier removed from the queue gets exactly one
\* task_done (on an absent command in the same step, else when the call
\* fails, the call or the spacing sleep ends, or the cancelled worker is
\* resumed; async_unload's flush for everything it removes), and a get that
\* was cancelled before it returned an item gets none.
C39_QueueAccounting ==
  /\ unfinished_tasks >= 0
  /\ unfinished_tasks = Len(command_queue) + Cardinality(holding)
  /\ \A w \in WorkerIds :
       /\ wpc[w] \in {"call", "sleep"} => w \in holding
       /\ w \in holding => wpc[w] \in {"call", "sleep", "cancelling"}
  /\ phase = "stopped" /\ command_queue = <<>> /\ LiveWorkers = {} => unfinished_tasks = 0

\* A worker cancelled during its call or its spacing sleep still owes the
\* task_done of the identifier it took, while others wait on the queue.
C39_Witness ==
  \E w \in WorkerIds :
    /\ wpc[w] = "cancelling"
    /\ w \in holding
    /\ command_queue # <<>>
    /\ unfinished_tasks = Len(command_queue) + 1

\* A worker cancelled inside queue.get(): it holds nothing and the queue is
\* counted alone.
C39_CancelledGetWitness ==
  \E w \in WorkerIds :
    /\ wpc[w] = "cancelling"
    /\ w \notin holding
    /\ unfinished_tasks = Len(command_queue)
    /\ unfinished_tasks > 0

====
